---- MODULE Spec2Model ----
(***************************************************************************)
(* redicluster: the slot table of ClusterPool (lookup, MOVED update,       *)
(* single-flight reload), the auto-redirecting Do of redirconn and the     *)
(* scatter/gather pipeLiner, as a state machine.                           *)
(*                                                                         *)
(* Every section of code that runs under ClusterPool.mu is one action      *)
(* guarded by the mutex being free; onRedir, which takes no lock, reads    *)
(* and writes the table in two separate steps.  Network calls (borrowing a *)
(* connection, a command's reply, CLUSTER SLOTS) have outcomes chosen by   *)
(* the environment.                                                        *)
(***************************************************************************)
EXTENDS Integers, Sequences, FiniteSets, TLC

(*************************** bounds of the model ***************************)
\* explicit ReloadSlotMapping calls made by the application
MaxReloadCalls == 2
\* reload tasks (explicit callers and background goroutines) alive at once
MaxReloadTasks == 2
\* Send calls made on the facade
MaxSends == 2
\* Do calls made on the facade
MaxDo == 1
\* GetAddrsBySlots calls made directly by the application
MaxLookups == 1
\* the longest key, without its tag's braces, and the longest suffix
MaxKeyLen == 2
\* the most arguments of a command given to CmdSlot
MaxArgs == 3
\* the most keys of an MSET or MGET
MaxSubs == 2
MaxChannels == 2
MaxCheckouts == 2
MaxCoCalls == 2
MaxPoolCloses == 1
MaxMultiKeys == 3

(***************************** program constants ***************************)
TotalSlots == 16384

OpNil == 0
OpDO == 1
OpPipeLine == 2

(******************************** the cluster ******************************)
AddrA == "A:6379"
AddrB == "B:6379"
AddrC == "C:6379"
Addrs == {AddrA, AddrB, AddrC}

\* ClusterPool.EntryAddrs, the configured seed list
EntryAddrs == <<AddrA>>

NoAddr == ""
NoConn == "nil"

\* a [host, port, id] entry of a CLUSTER SLOTS reply; wellFormed = FALSE is an
\* entry redis.Scan cannot read into (string, int, string)
Node(h, p) == [host |-> h, port |-> p, id |-> "id-" \o h, wellFormed |-> TRUE]
BadNode == [host |-> "?", port |-> 0, id |-> "?", wellFormed |-> FALSE]

\* the CLUSTER SLOTS replies the nodes of the model give
Topo1 ==
  << [Start |-> 0, End |-> 8191, nodes |-> <<Node("A", 6379), Node("B", 6379)>>],
     [Start |-> 8192, End |-> 16383, nodes |-> <<Node("B", 6379)>>] >>
Topo2 ==
  << [Start |-> 0, End |-> 16383,
      nodes |-> <<Node("C", 6379), Node("A", 6379), Node("B", 6379)>>] >>
TopoBad ==
  << [Start |-> 0, End |-> 8191, nodes |-> <<Node("C", 6379)>>],
     [Start |-> 8192, End |-> 16383, nodes |-> <<BadNode>>] >>
ClusterSlotsReplies == {Topo1, Topo2, TopoBad}
\* the reply of a cluster whose slots 8192..16383 are assigned to no node
TopoPart ==
  << [Start |-> 0, End |-> 8191, nodes |-> <<Node("C", 6379)>>] >>

(********************************* hashing *********************************)
\* keys are sequences of one-character strings
KeyA == <<"a">>
KeyB == <<"b">>
Keys == {KeyA, KeyB}

Ord(c) ==
  CASE c = "a" -> 97 [] c = "b" -> 98 [] c = "c" -> 99 [] c = "x" -> 120
    [] c = "y" -> 121 [] c = "{" -> 123 [] c = "}" -> 125
    [] c = "1" -> 49 [] c = "2" -> 50

RECURSIVE Xor(_, _)
Xor(a, b) ==
  IF a = 0 THEN b
  ELSE IF b = 0 THEN a
  ELSE (((a % 2) + (b % 2)) % 2) + (2 * Xor(a \div 2, b \div 2))

RECURSIVE CrcShift(_, _)
CrcShift(crc, n) ==
  IF n = 0 THEN crc
  ELSE CrcShift(IF crc >= 32768 THEN Xor((crc * 2) % 65536, 4129)
                ELSE (crc * 2) % 65536, n - 1)

RECURSIVE crc16From(_, _)
crc16From(crc, key) ==
  IF key = <<>> THEN crc
  ELSE crc16From(CrcShift(Xor(crc, Ord(Head(key)) * 256), 8), Tail(key))

\* CRC16 (CCITT-XMODEM, polynomial 0x1021, initial value 0)
crc16(key) == crc16From(0, key)

\* strings.Index(key, c): 0-based index of the first c, -1 if there is none
RECURSIVE IndexFrom(_, _, _)
IndexFrom(key, c, i) ==
  IF i > Len(key) THEN -1
  ELSE IF key[i] = c THEN i - 1
  ELSE IndexFrom(key, c, i + 1)
Index(key, c) == IndexFrom(key, c, 1)

\* a slot that hashes the whole key, braces or not
slotWholeKey(key) == crc16(key) % TotalSlots

\* slot returns the hash slot of the key
slot(key) ==
  LET start == Index(key, "{") IN
    IF start >= 0
    THEN LET rest == SubSeq(key, start + 2, Len(key))
             end == Index(rest, "}")
         IN IF end > 0 THEN crc16(SubSeq(rest, 1, end)) % TotalSlots
            ELSE crc16(key) % TotalSlots
    ELSE crc16(key) % TotalSlots

\* every sequence over S of at most n elements
SeqsUpTo(S, n) == UNION {[1..k -> S] : k \in 0..n}

\* an argument of a command: a string, or a []interface{} passed as one value
Str(k) == [t |-> "string", v |-> k]
Slice(a) == [t |-> "slice", v |-> a]

\* CmdSlot returns the hash slot of the command; cmd is not looked at
CmdSlot(cmd, args) ==
  IF Len(args) > 0 /\ args[1].t = "string" THEN slot(args[1].v) ELSE 0

\* the slots of the table the model keeps: those its keys hash to, and slot 0
Slots == {0} \cup {slot(k) : k \in Keys}

(**************************** redirection errors ***************************)
NoErr == [kind |-> "nil"]
NoReply == [kind |-> "nil"]
NoRedir == [Kind |-> "nil"]

\* decimal text of the slot numbers the nodes of the model put in an error
Itoa(n) == ToString(n)

\* the integers whose decimal text the model's errors hold; Atoi takes a sign
AtoiInts == Slots \cup {TotalSlots, -1}

\* strconv.Atoi on the tokens the model's errors hold
AtoiOk(tok) == \E s \in AtoiInts : Itoa(s) = tok
Atoi(tok) == CHOOSE s \in AtoiInts : Itoa(s) = tok

\* a redis.Error with its text split into fields; from and re record the node
\* that sent it and the command it answers
RedisError(parts, from, re) ==
  [kind |-> "redis", parts |-> parts, from |-> from, re |-> re]
MovedErr(s, a, from, re) == RedisError(<<"MOVED", Itoa(s), a>>, from, re)
AskErr(s, a, from, re) == RedisError(<<"ASK", Itoa(s), a>>, from, re)
OtherErr(from, re) == RedisError(<<"ERR", "wrong", "type">>, from, re)
OkReply(from, re) == [kind |-> "ok", from |-> from, re |-> re]

\* ParseRedirInfo parses the redirecting error into RedirInfo
ParseRedirInfo(err) ==
  IF err.kind # "redis" THEN NoRedir
  ELSE IF Len(err.parts) # 3 \/ (err.parts[1] # "MOVED" /\ err.parts[1] # "ASK")
    THEN NoRedir
  ELSE IF ~AtoiOk(err.parts[2]) THEN NoRedir
  ELSE [Kind |-> err.parts[1], Slot |-> Atoi(err.parts[2]), Addr |-> err.parts[3]]

(********************************** state **********************************)
VARIABLES
  slotAddrMap,   \* ClusterPool.slotAddrMap, kept for the slots of Slots
  slots,         \* ClusterPool.slots, the installed ranges
  connPools,     \* the addresses ClusterPool.connPools holds a pool for
  reloading,     \* ClusterPool.reloading
  muLocked,      \* ClusterPool.mu is locked
  hasFactory,    \* ClusterPool.CreateConnPool is set
  rt,            \* the running reloadSlotMaping calls
  nReloadCalls,  \* ReloadSlotMapping calls made so far
  cpc,           \* where the caller of the facade is
  redir,         \* redirconn.redir
  mu,            \* redirconn.mu is held
  lastAddr,      \* redirconn.lastAddr
  lastRc,        \* redirconn.lastRc, named by the node it is connected to
  lastOp,        \* redirconn.lastOp
  d,             \* the locals of the running Do, multiset or multiget
  nDo,           \* Do calls made so far
  ppl,           \* redirconn.ppl, or the pipeLiner of the running multiset / multiget
  bt,            \* the batch goroutines of the running flush
  fl,            \* the locals of the running flush
  nSends,        \* Send calls made so far
  nLookups,      \* direct GetAddrsBySlots calls made so far
  inp,           \* the arguments of a call of slot, CmdSlot or ParseRedirInfo
  pools,         \* the pools CreateConnPool made: which is registered, which closed
  co,            \* the running getRedisConnByAddrContext calls of the application
  ss,            \* a ShardedPubSubConn and the SSubscribe it is running
  ret,           \* what the last finished call returned
  obs            \* what the calls did: wire calls, reloads scheduled

poolVars == <<slotAddrMap, slots, connPools, reloading, muLocked, hasFactory, pools>>
reloadVars == <<rt, nReloadCalls>>
connVars == <<redir, mu, lastAddr, lastRc, lastOp>>
doVars == <<d, nDo>>
pplVars == <<ppl, bt, fl, nSends>>
vars == <<poolVars, reloadVars, cpc, connVars, doVars, pplVars, nLookups, inp, co, ss,
         ret, obs>>

ReloadTasks == 1..MaxReloadTasks

(******************************* the slot table ****************************)
\* rand.Intn(n): panics for n <= 0
Intn(n) == 0..(n - 1)

RECURSIVE LookupFrom(_, _, _, _)
LookupFrom(table, sls, readOnly, addrs) ==
  IF sls = <<>> THEN {[addrs |-> addrs, err |-> "nil"]}
  ELSE LET sl == Head(sls) IN
    IF sl >= TotalSlots THEN {[addrs |-> <<>>, err |-> "invalid slot"]}
    ELSE IF sl < 0 THEN {[addrs |-> <<>>, err |-> "panic"]}
    ELSE LET sa == table[sl] IN
      IF Len(sa) = 0 THEN {[addrs |-> <<>>, err |-> "bad slot mapping"]}
      ELSE IF ~readOnly THEN LookupFrom(table, Tail(sls), readOnly, Append(addrs, sa[1]))
      ELSE IF Len(sa) = 2
        THEN LookupFrom(table, Tail(sls), readOnly, Append(addrs, sa[2]))
      ELSE IF Len(sa) - 1 <= 0 THEN {[addrs |-> <<>>, err |-> "panic"]}
      ELSE UNION { IF ix + 2 > Len(addrs)
                   THEN {[addrs |-> <<>>, err |-> "panic"]}
                   ELSE LookupFrom(table, Tail(sls), readOnly,
                                   Append(addrs, addrs[ix + 2]))
                   : ix \in Intn(Len(sa) - 1) }

\* a lookup that takes the replica path whatever readOnly says
GetAddrsBySlotsReplica(table, sls, readOnly) == LookupFrom(table, sls, TRUE, <<>>)

\* GetAddrsBySlots: every result the call can give on the table
GetAddrsBySlots(table, sls, readOnly) == LookupFrom(table, sls, readOnly, <<>>)

\* a test that reacts to ASK as it does to MOVED
onRedirDecideAnyKind(table, ri) ==
  /\ ri.Slot < TotalSlots
  /\ (Len(table[ri.Slot]) = 0 \/ table[ri.Slot][1] # ri.Addr)

\* a test that is content when any owner of the slot, replica or not, is the
\* address of the MOVED
onRedirDecideAnyOwner(table, ri) ==
  /\ ri.Kind = "MOVED"
  /\ ri.Slot < TotalSlots
  /\ \A j \in 1..Len(table[ri.Slot]) : table[ri.Slot][j] # ri.Addr

\* onRedir, its test: whether the MOVED names an address the table does not have
onRedirDecide(table, ri) ==
  /\ ri.Kind = "MOVED"
  /\ ri.Slot < TotalSlots
  /\ (Len(table[ri.Slot]) = 0 \/ table[ri.Slot][1] # ri.Addr)

\* a write that adds the address of the MOVED to the owners the slot has
\* a write that leaves the owners of the slot as they are
onRedirWriteNothing(table, ri) == table

onRedirWriteAppend(table, ri) == [table EXCEPT ![ri.Slot] = Append(@, ri.Addr)]

\* onRedir, its write: the slot's owners become the address of the MOVED
onRedirWrite(table, ri) == [table EXCEPT ![ri.Slot] = <<ri.Addr>>]

\* go cp.reloadSlotMaping(): a goroutine that starts at the reloading check
IdleTasks == {t \in ReloadTasks : rt[t].pc = "idle"}
IdleTask == CHOOSE t \in IdleTasks : \A u \in IdleTasks : t <= u
NewTask == [pc |-> "check", nodes |-> <<>>, rep |-> <<>>, err |-> "nil"]
DoneTask == [pc |-> "idle", nodes |-> <<>>, rep |-> <<>>, err |-> "nil"]
SpawnReload == [rt EXCEPT ![IdleTask] = NewTask]

\* getRedisConnByAddrContext: the pool map after a checkout of addr
PoolsAfterGet(addr) == IF hasFactory THEN connPools \cup {addr} ELSE connPools

\* calls: per address, the CreateConnPool calls made, the n-th of which makes
\* pool n of the address; reg: the pool connPools holds for the address, 0 for
\* none; made: the pools the calls returned; closed: the pools Close has
\* closed; closes: the Close calls made
NoPools == [calls |-> [a \in Addrs |-> 0], reg |-> [a \in Addrs |-> 0], made |-> {},
            closed |-> {}, closes |-> 0]
\* CreateConnPool(ctx, addr) and cp.connPools[addr] = np
Created(addr) ==
  [pools EXCEPT !.calls[addr] = @ + 1, !.reg[addr] = pools.calls[addr] + 1,
                !.made = @ \cup {<<addr, pools.calls[addr] + 1>>}]
\* getRedisConnByAddrContext: the pools after a checkout of addr
FactoryAfterGet(addr) ==
  IF hasFactory /\ addr \notin connPools THEN Created(addr) ELSE pools

\* getNodes(replica): the addresses of the installed ranges, else the seeds
RECURSIVE NodesOf(_, _)
NodesOf(sis, replica) ==
  IF sis = <<>> THEN <<>>
  ELSE (IF replica THEN Head(sis).Addrs ELSE SubSeq(Head(sis).Addrs, 1, 1))
       \o NodesOf(Tail(sis), replica)
getNodes(replica) ==
  LET nodes == NodesOf(slots, replica) IN
    IF Len(nodes) = 0 THEN EntryAddrs ELSE nodes

\* a parse that takes every reply
ParseAny(rep) == TRUE

\* updateSlotMap, its parse: the ranges of a reply, none if an entry is malformed
RECURSIVE AddrsOf(_)
AddrsOf(ns) ==
  IF ns = <<>> THEN <<>>
  ELSE <<Head(ns).host \o ":" \o ToString(Head(ns).port)>> \o AddrsOf(Tail(ns))
ParseOk(rep) ==
  \A i \in 1..Len(rep) : \A j \in 1..Len(rep[i].nodes) : rep[i].nodes[j].wellFormed
ParseSlots(rep) ==
  [i \in 1..Len(rep) |->
     [Start |-> rep[i].Start, End |-> rep[i].End, Addrs |-> AddrsOf(rep[i].nodes)]]

\* updateSlotMap, its install: each range written over the table in turn
RECURSIVE Install(_, _)
Install(table, sis) ==
  IF sis = <<>> THEN table
  ELSE Install([s \in Slots |->
                  IF Head(sis).Start <= s /\ s <= Head(sis).End
                  THEN Head(sis).Addrs ELSE table[s]],
               Tail(sis))

(********************************** reload *********************************)
\* a panic ends the process, and its goroutines with it
Running == cpc # "panic"

\* ReloadSlotMapping, called by the application
ReloadSlotMapping ==
  /\ Running
  /\ nReloadCalls < MaxReloadCalls
  /\ IdleTasks # {}
  /\ rt' = SpawnReload
  /\ nReloadCalls' = nReloadCalls + 1
  /\ UNCHANGED <<poolVars, cpc, connVars, doVars, pplVars, nLookups, inp, co, ss, ret, obs>>

\* a check that goes on whatever the flag says
ReloadCheckBodyNoFlag(t) ==
  /\ rt[t].pc = "check"
  /\ ~muLocked
  /\ reloading' = TRUE
  /\ rt' = [rt EXCEPT ![t].pc = "getNodes"]
  /\ UNCHANGED muLocked

\* reloadSlotMaping: lock, test the flag; a reload in progress makes it return
\* without unlocking
ReloadCheckBody(t) ==
  /\ rt[t].pc = "check"
  /\ ~muLocked
  /\ IF reloading
     THEN /\ muLocked' = TRUE
          /\ rt' = [rt EXCEPT ![t] = DoneTask]
          /\ UNCHANGED reloading
     ELSE /\ reloading' = TRUE
          /\ rt' = [rt EXCEPT ![t].pc = "getNodes"]
          /\ UNCHANGED muLocked
ReloadCheck(t) ==
  /\ Running
  /\ ReloadCheckBody(t)
  /\ UNCHANGED <<slotAddrMap, slots, connPools, pools, hasFactory, nReloadCalls, cpc,
                 connVars, doVars, pplVars, nLookups, inp, co, ss, ret, obs>>

\* nodes := cp.getNodes(true)
ReloadGetNodes(t) ==
  /\ Running
  /\ rt[t].pc = "getNodes"
  /\ ~muLocked
  /\ rt' = [rt EXCEPT ![t].nodes = getNodes(TRUE),
                      ![t].pc = IF Len(getNodes(TRUE)) = 0 THEN "clear" ELSE "borrow",
                      ![t].err = IF Len(getNodes(TRUE)) = 0 THEN "empty node" ELSE "nil"]
  /\ UNCHANGED <<poolVars, nReloadCalls, cpc, connVars, doVars, pplVars, nLookups, inp, co, ss,
                 ret, obs>>

\* one turn of the loop: getRedisConnByAddr(addr), conn.Do("CLUSTER", "SLOTS"),
\* conn.Close() and updateSlotMap's parse of the reply; a failure of any of
\* them goes on to the next candidate; past the last one, "all nodes failed"
ReloadTryFrom(t, replies) ==
  /\ Running
  /\ rt[t].pc = "borrow"
  /\ IF rt[t].nodes = <<>>
     THEN /\ rt' = [rt EXCEPT ![t].pc = "clear", ![t].err = "all nodes failed"]
          /\ UNCHANGED <<connPools, pools>>
     ELSE /\ ~muLocked
          /\ connPools' = PoolsAfterGet(Head(rt[t].nodes))
          /\ pools' = FactoryAfterGet(Head(rt[t].nodes))
          /\ \/ rt' = [rt EXCEPT ![t].nodes = Tail(@)]
             \/ \E rep \in replies :
                  rt' = IF ParseOk(rep)
                        THEN [rt EXCEPT ![t].rep = rep, ![t].pc = "update"]
                        ELSE [rt EXCEPT ![t].nodes = Tail(@)]
  /\ UNCHANGED <<slotAddrMap, slots, reloading, muLocked, hasFactory, nReloadCalls,
                 cpc, connVars, doVars, pplVars, nLookups, inp, co, ss, ret, obs>>
ReloadTry(t) == ReloadTryFrom(t, ClusterSlotsReplies)

\* the same turn in a cluster that has just lost the owner of its upper slots
ReloadTryShrunk(t) == ReloadTryFrom(t, ClusterSlotsReplies \cup {TopoPart})

\* updateSlotMap(rep): the ranges and the table are installed under the lock
ReloadUpdate(t) ==
  /\ Running
  /\ rt[t].pc = "update"
  /\ ~muLocked
  /\ slots' = ParseSlots(rt[t].rep)
  /\ slotAddrMap' = Install(slotAddrMap, ParseSlots(rt[t].rep))
  /\ rt' = [rt EXCEPT ![t].pc = "clear", ![t].rep = <<>>, ![t].nodes = <<>>]
  /\ UNCHANGED <<connPools, pools, reloading, muLocked, hasFactory, nReloadCalls, cpc,
                 connVars, doVars, pplVars, nLookups, inp, co, ss, ret, obs>>

\* the deferred func: lock, reloading = false, unlock
ReloadClear(t) ==
  /\ Running
  /\ rt[t].pc = "clear"
  /\ ~muLocked
  /\ reloading' = FALSE
  /\ rt' = [rt EXCEPT ![t] = DoneTask]
  /\ UNCHANGED <<slotAddrMap, slots, connPools, pools, muLocked, hasFactory, nReloadCalls,
                 cpc, connVars, doVars, pplVars, nLookups, inp, co, ss, ret, obs>>

ReloadStep(t) ==
  \/ ReloadCheck(t)
  \/ ReloadGetNodes(t)
  \/ ReloadTry(t)
  \/ ReloadUpdate(t)
  \/ ReloadClear(t)

(**************************** the nodes' answers ***************************)
\* what node answers to the command re with arguments args: a value, an error,
\* or a redirection of the key's slot to another node
Answers(node, args, re) ==
  LET s == slot(args[1].v) IN
    {[reply |-> OkReply(node, re), err |-> NoErr],
     [reply |-> NoReply, err |-> OtherErr(node, re)]}
    \cup {[reply |-> NoReply, err |-> MovedErr(s, a, node, re)] : a \in Addrs \ {node}}
    \cup {[reply |-> NoReply, err |-> AskErr(s, a, node, re)] : a \in Addrs \ {node}}

\* the value node holds for key k, as an element of an MGET reply
Val(k, node) == [kind |-> "val", k |-> k, from |-> node]

\* the node that a node of a sub-command of MSET or MGET redirects to
Elsewhere(node) == IF node = AddrB THEN AddrA ELSE AddrB

\* what node answers to an MSET: OK, an error, or a MOVED of the first key's
\* slot
MsetAnswers(node, args, re) ==
  LET s == slot(args[1].v) IN
    {[reply |-> OkReply(node, re), err |-> NoErr],
     [reply |-> NoReply, err |-> OtherErr(node, re)],
     [reply |-> NoReply, err |-> MovedErr(s, Elsewhere(node), node, re)]}

\* what node answers to an MGET: the array of its keys' values, an array of
\* another length, an error, or a MOVED of the first key's slot
MgetAnswers(node, args, re) ==
  LET s == slot(args[1].v)
      arr(vals) == [kind |-> "array", vals |-> vals, from |-> node, re |-> re]
  IN {[reply |-> arr([i \in 1..Len(args) |-> Val(args[i].v, node)]), err |-> NoErr],
      [reply |-> arr(<<>>), err |-> NoErr],
      [reply |-> NoReply, err |-> OtherErr(node, re)],
      [reply |-> NoReply, err |-> MovedErr(s, Elsewhere(node), node, re)]}

\* what node answers to the command c of a pipeline
AnswersFor(node, c) ==
  IF c.commandName = "MGET" THEN MgetAnswers(node, c.args, c.id)
  ELSE IF c.commandName = "MSET" THEN MsetAnswers(node, c.args, c.id)
  ELSE Answers(node, c.args, c.id)

(************************************ Do ***********************************)
NoDo == [cmd |-> "", args |-> <<>>, addr |-> NoAddr, conn |-> NoConn, repl |-> NoReply,
         err1 |-> NoErr, ri |-> NoRedir]
\* wire: the nodes the running Do sent its command to; first: the error of its
\* first answer; decided, tbl: what onRedir's test gave and what its write left
\* for the slot; sched: the background reloads the running call started;
\* grp: the commands the last flush took; nrcv: the replies handed out since;
\* open: per node, the connections Do calls borrowed less those closed since;
\* held: the same for the connections the batches of a pipeLiner borrowed
NoneOpen == [a \in Addrs |-> 0]
NoObs == [wire |-> <<>>, sched |-> 0, first |-> NoErr, decided |-> FALSE,
          tbl |-> <<>>, grp |-> <<>>, nrcv |-> 0, open |-> NoneOpen, held |-> NoneOpen]
CallObs == [NoObs EXCEPT !.grp = obs.grp, !.nrcv = obs.nrcv, !.open = obs.open,
                         !.held = obs.held]
FlushObs == [NoObs EXCEPT !.open = obs.open, !.held = obs.held]
\* the count after a connection to node a is borrowed
Borrowed(n, a) == [n EXCEPT ![a] = @ + 1]
\* the count after conn.Close() on a connection, if there is one
Closed(n, conn) == IF conn = NoConn THEN n ELSE [n EXCEPT ![conn] = @ - 1]
NoRet == [call |-> "none"]
DoRet(reply, err) == [call |-> "Do", reply |-> reply, err |-> err]
\* an error the driver itself makes
LocalErr(text) == [kind |-> "local", text |-> text]

\* Do / DoContext is called with a command that is neither MSET nor MGET
DoStart ==
  /\ cpc = "idle"
  /\ nDo < MaxDo
  /\ \E k \in Keys : d' = [NoDo EXCEPT !.cmd = "GET", !.args = <<Str(k)>>]
  /\ nDo' = nDo + 1
  /\ cpc' = "do_route"
  /\ ret' = NoRet
  /\ obs' = CallObs
  /\ UNCHANGED <<poolVars, reloadVars, connVars, pplVars, nLookups, inp, co, ss>>

\* the Do the application makes after the last of its MaxDo calls has returned
DoNext ==
  /\ cpc = "idle"
  /\ nDo = MaxDo
  /\ ret.call = "Do"
  /\ \E k \in Keys : d' = [NoDo EXCEPT !.cmd = "GET", !.args = <<Str(k)>>]
  /\ nDo' = nDo + 1
  /\ cpc' = "do_route"
  /\ ret' = NoRet
  /\ obs' = CallObs
  /\ UNCHANGED <<poolVars, reloadVars, connVars, pplVars, nLookups, inp, co, ss>>

\* getConn: the address of the command's slot, or the last address for slot < 0
DoRoute ==
  /\ cpc = "do_route"
  /\ LET sl == CmdSlot(d.cmd, d.args) IN
       IF sl < 0 /\ lastAddr # NoAddr
       THEN /\ d' = [d EXCEPT !.addr = lastAddr]
            /\ cpc' = "do_borrow"
            /\ UNCHANGED ret
       ELSE /\ ~muLocked
            /\ \E r \in GetAddrsBySlots(slotAddrMap, <<sl>>, FALSE) :
                 IF r.err # "nil"
                 THEN /\ ret' = DoRet(NoReply, LocalErr(r.err))
                      /\ cpc' = "idle"
                      /\ d' = NoDo
                 ELSE IF Len(r.addrs) = 0 \/ Len(r.addrs[1]) = 0
                 THEN /\ ret' = DoRet(NoReply, LocalErr("empty node address"))
                      /\ cpc' = "idle"
                      /\ d' = NoDo
                 ELSE /\ d' = [d EXCEPT !.addr = r.addrs[1]]
                      /\ cpc' = "do_borrow"
                      /\ UNCHANGED ret
  /\ UNCHANGED <<poolVars, reloadVars, connVars, nDo, pplVars, nLookups, inp, co, ss, obs>>

\* getConn: reuse the cached connection or borrow one for the address
DoBorrow ==
  /\ cpc = "do_borrow"
  /\ ~mu
  /\ IF d.addr # lastAddr \/ lastRc = NoConn
     THEN /\ ~muLocked
          /\ connPools' = PoolsAfterGet(d.addr)
          /\ pools' = FactoryAfterGet(d.addr)
          /\ \E ok \in BOOLEAN :
               IF ok
               THEN /\ lastAddr' = d.addr
                    /\ lastRc' = d.addr
                    /\ obs' = [obs EXCEPT !.open = Borrowed(Closed(@, lastRc), d.addr)]
                    /\ d' = [d EXCEPT !.conn = d.addr]
                    /\ cpc' = "do_call"
                    /\ UNCHANGED ret
               ELSE /\ ret' = DoRet(NoReply, LocalErr("invalid conn"))
                    /\ cpc' = "idle"
                    /\ d' = NoDo
                    /\ UNCHANGED <<lastAddr, lastRc, obs>>
     ELSE /\ d' = [d EXCEPT !.conn = lastRc]
          /\ cpc' = "do_call"
          /\ UNCHANGED <<connPools, pools, lastAddr, lastRc, ret, obs>>
  /\ lastOp' = OpDO
  /\ UNCHANGED <<slotAddrMap, slots, reloading, muLocked, hasFactory, reloadVars,
                 redir, mu, nDo, pplVars, nLookups, inp, co, ss>>

\* Do of redirconn.go, from c.mu.Lock() on: the cached connection is reused,
\* or one is borrowed for the address and cached over the old one, which is
\* not closed; without a connection Do returns with c.mu still locked
DoLockBorrow ==
  /\ cpc = "do_borrow"
  /\ ~mu
  /\ IF d.addr # lastAddr \/ lastRc = NoConn
     THEN /\ ~muLocked
          /\ connPools' = PoolsAfterGet(d.addr)
          /\ pools' = FactoryAfterGet(d.addr)
          /\ \E ok \in BOOLEAN :
               IF ok
               THEN /\ lastAddr' = d.addr
                    /\ lastRc' = d.addr
                    /\ obs' = [obs EXCEPT !.open = Borrowed(@, d.addr)]
                    /\ d' = [d EXCEPT !.conn = d.addr]
                    /\ cpc' = "do_call"
                    /\ UNCHANGED <<mu, ret>>
               ELSE /\ ret' = DoRet(NoReply, LocalErr("invalid conn"))
                    /\ mu' = TRUE
                    /\ cpc' = "idle"
                    /\ d' = NoDo
                    /\ UNCHANGED <<lastAddr, lastRc, obs>>
     ELSE /\ d' = [d EXCEPT !.conn = lastRc]
          /\ cpc' = "do_call"
          /\ UNCHANGED <<connPools, pools, mu, lastAddr, lastRc, ret, obs>>
  /\ UNCHANGED <<slotAddrMap, slots, reloading, muLocked, hasFactory, reloadVars,
                 redir, lastOp, nDo, pplVars, nLookups, inp, co, ss>>

\* connDoContext(conn, ...): the first request; a redirection error goes on to
\* onRedir, anything else is returned
DoCall ==
  /\ cpc = "do_call"
  /\ \E a \in Answers(d.conn, d.args, 0) :
       /\ obs' = [obs EXCEPT !.wire = Append(@, d.conn), !.first = a.err]
       /\ IF a.err # NoErr /\ ParseRedirInfo(a.err) # NoRedir
          THEN /\ d' = [d EXCEPT !.repl = a.reply, !.err1 = a.err,
                                 !.ri = ParseRedirInfo(a.err)]
               /\ cpc' = "do_redir"
               /\ UNCHANGED ret
          ELSE /\ ret' = DoRet(a.reply, a.err)
               /\ cpc' = "idle"
               /\ d' = NoDo
  /\ UNCHANGED <<poolVars, reloadVars, connVars, nDo, pplVars, nLookups, inp, co, ss>>

\* c.cp.onRedir(ri): the test of the table, made without the lock
DoRedirRead ==
  /\ cpc = "do_redir"
  /\ IF onRedirDecide(slotAddrMap, d.ri)
     THEN /\ cpc' = "do_redirWrite"
          /\ obs' = [obs EXCEPT !.decided = TRUE]
     ELSE /\ cpc' = "do_borrow2"
          /\ UNCHANGED obs
  /\ UNCHANGED <<poolVars, reloadVars, connVars, doVars, pplVars, nLookups, inp, co, ss, ret>>

\* c.cp.onRedir(ri): the write of the table and go cp.reloadSlotMaping()
DoRedirWrite ==
  /\ cpc = "do_redirWrite"
  /\ IdleTasks # {}
  /\ slotAddrMap' = onRedirWrite(slotAddrMap, d.ri)
  /\ rt' = SpawnReload
  /\ obs' = [obs EXCEPT !.sched = @ + 1, !.tbl = slotAddrMap'[d.ri.Slot]]
  /\ cpc' = "do_borrow2"
  /\ UNCHANGED <<slots, connPools, pools, reloading, muLocked, hasFactory, nReloadCalls,
                 connVars, doVars, pplVars, nLookups, inp, co, ss, ret>>

\* getRedisConnByAddrContext(ctx, ri.Addr); without a connection the first
\* answer is returned
DoBorrow2 ==
  /\ cpc = "do_borrow2"
  /\ ~muLocked
  /\ connPools' = PoolsAfterGet(d.ri.Addr)
  /\ pools' = FactoryAfterGet(d.ri.Addr)
  /\ \E ok \in BOOLEAN :
       IF ok
       THEN /\ d' = [d EXCEPT !.conn = d.ri.Addr]
            /\ obs' = [obs EXCEPT !.open = Borrowed(@, d.ri.Addr)]
            /\ cpc' = "do_call2"
            /\ UNCHANGED ret
       ELSE /\ ret' = DoRet(d.repl, d.err1)
            /\ cpc' = "idle"
            /\ d' = NoDo
            /\ UNCHANGED obs
  /\ UNCHANGED <<slotAddrMap, slots, reloading, muLocked, hasFactory, reloadVars,
                 connVars, nDo, pplVars, nLookups, inp, co, ss>>

\* a second request that follows a further redirection
DoCall2Again ==
  /\ cpc = "do_call2"
  /\ \E a \in Answers(d.conn, d.args, 0) :
       /\ obs' = [obs EXCEPT !.wire = Append(@, d.conn)]
       /\ IF a.err # NoErr /\ ParseRedirInfo(a.err) # NoRedir
          THEN /\ d' = [d EXCEPT !.ri = ParseRedirInfo(a.err)]
               /\ cpc' = "do_borrow2"
               /\ UNCHANGED ret
          ELSE /\ ret' = DoRet(a.reply, a.err)
               /\ cpc' = "idle"
               /\ d' = NoDo
  /\ lastAddr' = d.ri.Addr
  /\ lastRc' = d.conn
  /\ UNCHANGED <<poolVars, reloadVars, redir, mu, lastOp, nDo, pplVars, nLookups, inp, co, ss>>

\* the second request, on the redirected connection, which becomes the cached one
DoCall2 ==
  /\ cpc = "do_call2"
  /\ \E a \in Answers(d.conn, d.args, 0) :
       /\ obs' = [obs EXCEPT !.wire = Append(@, d.conn)]
       /\ ret' = DoRet(a.reply, a.err)
  /\ lastAddr' = d.ri.Addr
  /\ lastRc' = d.conn
  /\ cpc' = "idle"
  /\ d' = NoDo
  /\ UNCHANGED <<poolVars, reloadVars, redir, mu, lastOp, nDo, pplVars, nLookups, inp, co, ss>>

DoStep ==
  \/ DoStart
  \/ DoRoute
  \/ DoBorrow
  \/ DoCall
  \/ DoRedirRead
  \/ DoRedirWrite
  \/ DoBorrow2
  \/ DoCall2

(********************************* pipeLiner *******************************)
NoBatch == [exists |-> FALSE, conn |-> NoConn, cmds |-> <<>>]
NoPpl == [exists |-> FALSE, cmds |-> <<>>, flushed |-> FALSE, recvPos |-> -1,
          batches |-> [a \in Addrs |-> NoBatch]]
\* newPipeliner(cp)
newPipeliner == [NoPpl EXCEPT !.exists = TRUE]
\* a cmd; id numbers the Send that made it, tx lists the nodes it was written
\* to and rx the answers read for it
NewCmd(id, args) ==
  [id |-> id, commandName |-> "GET", args |-> args, reply |-> NoReply,
   reply_err |-> NoErr, slot |-> 0, addr |-> NoAddr, ri |-> NoRedir,
   tx |-> <<>>, rx |-> <<>>]
\* a cmd of the given command name
NewCmdOf(id, name, args) == [NewCmd(id, args) EXCEPT !.commandName = name]
NoTask == [pc |-> "none", i |-> 0, q |-> <<>>]
NoFlush == [k |-> 0, reload |-> FALSE, count |-> 0]

\* the application pipelines GET a, GET b, GET a, ...
PipeKey(n) == IF n % 2 = 1 THEN KeyA ELSE KeyB

\* Send: the command is appended to p.cmds of the facade's pipeLiner
Send ==
  /\ cpc = "idle"
  /\ ~mu
  /\ nSends < MaxSends
  /\ ppl' = [(IF ppl.exists THEN ppl ELSE newPipeliner)
              EXCEPT !.cmds = Append(@, NewCmd(nSends + 1, <<Str(PipeKey(nSends + 1))>>))]
  /\ nSends' = nSends + 1
  /\ lastOp' = OpPipeLine
  /\ ret' = [call |-> "Send", err |-> NoErr]
  /\ UNCHANGED <<poolVars, reloadVars, cpc, redir, mu, lastAddr, lastRc, doVars, bt, fl,
                 nLookups, inp, co, ss, obs>>

\* Flush, up to the start of buildBatches; nothing to do is a success
FlushCall ==
  /\ cpc = "idle"
  /\ ~mu
  /\ IF ~ppl.exists
     THEN /\ ret' = [call |-> "Flush", err |-> NoErr]
          /\ UNCHANGED <<cpc, lastOp, obs>>
     ELSE /\ lastOp' = OpPipeLine
          /\ IF ppl.flushed \/ Len(ppl.cmds) = 0
             THEN /\ ret' = [call |-> "Flush", err |-> NoErr]
                  /\ UNCHANGED <<cpc, obs>>
             ELSE /\ ret' = NoRet
                  /\ cpc' = "fl_build"
                  /\ obs' = FlushObs
  /\ UNCHANGED <<poolVars, reloadVars, redir, mu, lastAddr, lastRc, doVars, pplVars,
                 nLookups, inp, co, ss>>

\* buildBatches: the slot of each command, CmdSlot(cmd.commandName, cmd.args)
\* with the argument list passed as one argument
BatchSlots(cmds) ==
  [i \in 1..Len(cmds) |-> CmdSlot(cmds[i].commandName, <<Slice(cmds[i].args)>>)]

\* the commands of cmds, by index, that sel holds for address a
IndicesAt(n, a, sel) == SelectSeq([i \in 1..n |-> i], LAMBDA i : sel[i] = a)

\* buildBatches: a fresh map with one batch per address, in submission order
BuildBatches(cmds, addrs) ==
  [a \in Addrs |->
     LET ix == IndicesAt(Len(cmds), a, addrs) IN
       IF ix = <<>> THEN NoBatch
       ELSE [exists |-> TRUE, conn |-> NoConn, cmds |-> ix]]

\* runBatches: one goroutine per batch that holds commands
RunBatches(batches) ==
  [a \in Addrs |->
     IF batches[a].exists /\ Len(batches[a].cmds) > 0
     THEN [pc |-> "run", i |-> 1, q |-> <<>>] ELSE NoTask]

\* flush: buildBatches, then runBatches starts the first round
FlBuild ==
  /\ cpc = "fl_build"
  /\ ~muLocked
  /\ LET sls == BatchSlots(ppl.cmds)
         cmds1 == [i \in 1..Len(ppl.cmds) |-> [ppl.cmds[i] EXCEPT !.slot = sls[i]]]
     IN \E r \in GetAddrsBySlots(slotAddrMap, sls, FALSE) :
          IF r.err # "nil"
          THEN /\ ppl' = [ppl EXCEPT !.cmds = cmds1]
               /\ ret' = [call |-> "Flush", err |-> LocalErr(r.err)]
               /\ cpc' = "idle"
               /\ UNCHANGED <<bt, obs>>
          ELSE /\ ppl' = [ppl EXCEPT
                            !.cmds = [i \in 1..Len(cmds1) |->
                                        [cmds1[i] EXCEPT !.addr = r.addrs[i]]],
                            !.batches = BuildBatches(cmds1, r.addrs)]
               /\ bt' = RunBatches(ppl'.batches)
               /\ obs' = [obs EXCEPT !.grp = [i \in 1..Len(cmds1) |-> cmds1[i].id]]
               /\ cpc' = "fl_wait1"
               /\ UNCHANGED ret
  /\ fl' = NoFlush
  /\ UNCHANGED <<poolVars, reloadVars, connVars, doVars, nSends, nLookups, inp, co, ss>>

\* the commands of p.cmds with the batch's commands marked as written to a
Transmit(cmds, ix, a) ==
  [i \in 1..Len(cmds) |->
     IF \E j \in 1..Len(ix) : ix[j] = i
     THEN [cmds[i] EXCEPT !.tx = Append(@, a)] ELSE cmds[i]]

\* batch.run up to its Flush: borrow a connection if the batch has none, Send
\* every command in the batch's order, Flush; each of them can fail
BtStart(a) ==
  /\ bt[a].pc = "run"
  /\ LET sent == /\ bt' = [bt EXCEPT ![a].pc = "recv", ![a].q = ppl.batches[a].cmds]
                 /\ ppl' = [ppl EXCEPT
                              !.batches[a].conn = a,
                              !.cmds = Transmit(@, ppl.batches[a].cmds, a)]
         failed(conn) == /\ bt' = [bt EXCEPT ![a].pc = "done"]
                         /\ ppl' = [ppl EXCEPT !.batches[a].conn = conn]
     IN IF ppl.batches[a].conn = NoConn
        THEN /\ ~muLocked
             /\ connPools' = PoolsAfterGet(a)
             /\ pools' = FactoryAfterGet(a)
             /\ \/ sent /\ obs' = [obs EXCEPT !.held = Borrowed(@, a)]
                \/ failed(NoConn) /\ UNCHANGED obs
                \/ failed(a) /\ obs' = [obs EXCEPT !.held = Borrowed(@, a)]
        ELSE /\ (sent \/ failed(a))
             /\ UNCHANGED <<connPools, pools, obs>>
  /\ UNCHANGED <<slotAddrMap, slots, reloading, muLocked, hasFactory, reloadVars,
                 cpc, connVars, doVars, fl, nSends, nLookups, inp, co, ss, ret>>

\* batch.run: where the goroutine goes once command i of the batch is dealt with
AfterCmd(b, a) ==
  IF b[a].i >= Len(ppl.batches[a].cmds)
  THEN [b EXCEPT ![a] = [pc |-> "done", i |-> 0, q |-> <<>>]]
  ELSE [b EXCEPT ![a].pc = "recv", ![a].i = @ + 1]

\* replies handed to the commands of the batch from the last one backwards
RecvTargetReversed(a) ==
  ppl.batches[a].cmds[Len(ppl.batches[a].cmds) - bt[a].i + 1]

\* batch.run: the command of the batch that takes the reply read i-th
RecvTarget(a) == ppl.batches[a].cmds[bt[a].i]

\* batch.run: Receive for one command; the connection answers the requests in
\* the order they were written
BtRecv(a) ==
  /\ bt[a].pc = "recv"
  /\ LET c == RecvTarget(a)
         h == Head(bt[a].q)
     IN \E ans \in AnswersFor(a, ppl.cmds[h]) :
          LET ri == IF ans.err # NoErr THEN ParseRedirInfo(ans.err) ELSE NoRedir
              popped == [bt EXCEPT ![a].q = Tail(@)]
          IN /\ ppl' = [ppl EXCEPT !.cmds[c].reply = ans.reply,
                                   !.cmds[c].reply_err = ans.err,
                                   !.cmds[c].rx = Append(@, ans),
                                   !.cmds[c].ri = IF ri # NoRedir THEN ri ELSE @]
             /\ bt' = IF ri # NoRedir /\ ri.Kind = "MOVED"
                      THEN [popped EXCEPT ![a].pc = "redir"]
                      ELSE AfterCmd(popped, a)
  /\ UNCHANGED <<poolVars, reloadVars, cpc, connVars, doVars, fl, nSends, nLookups, inp, co, ss,
                 ret, obs>>

\* batch.run: p.cp.onRedir(ri), the test of the table, made without the lock
BtRedirRead(a) ==
  /\ bt[a].pc = "redir"
  /\ bt' = IF onRedirDecide(slotAddrMap, ppl.cmds[RecvTarget(a)].ri)
           THEN [bt EXCEPT ![a].pc = "redirWrite"]
           ELSE AfterCmd(bt, a)
  /\ UNCHANGED <<poolVars, reloadVars, cpc, connVars, doVars, ppl, fl, nSends,
                 nLookups, inp, co, ss, ret, obs>>

\* batch.run: p.cp.onRedir(ri), the write and go cp.reloadSlotMaping()
BtRedirWrite(a) ==
  /\ bt[a].pc = "redirWrite"
  /\ IdleTasks # {}
  /\ slotAddrMap' = onRedirWrite(slotAddrMap, ppl.cmds[RecvTarget(a)].ri)
  /\ rt' = SpawnReload
  /\ obs' = [obs EXCEPT !.sched = @ + 1]
  /\ bt' = AfterCmd(bt, a)
  /\ UNCHANGED <<slots, connPools, pools, reloading, muLocked, hasFactory, nReloadCalls,
                 cpc, connVars, doVars, ppl, fl, nSends, nLookups, inp, co, ss, ret>>

BatchStep(a) ==
  \/ BtStart(a)
  \/ BtRecv(a)
  \/ BtRedirRead(a)
  \/ BtRedirWrite(a)

\* a wait that ends once every goroutine of the round has started
BatchesStarted == \A a \in Addrs : bt[a].pc # "run"

\* wg.Wait() returns once every goroutine of the round is done
BatchesDone == \A a \in Addrs : bt[a].pc \in {"none", "done"}
NoTasks == [a \in Addrs |-> NoTask]

\* a redirected command put back in the batch of the address it had
AddToOwnBatch(batches, c) ==
  LET a == ppl.cmds[c].addr IN
    [batches EXCEPT ![a] = [exists |-> TRUE, conn |-> batches[a].conn,
                            cmds |-> Append(batches[a].cmds, c)]]

\* buildRedirectBatches: the command is appended to the batch of ri.Addr,
\* which is made if the map has none
AddToRedirBatch(batches, c) ==
  LET a == ppl.cmds[c].ri.Addr IN
    [batches EXCEPT ![a] = [exists |-> TRUE, conn |-> batches[a].conn,
                            cmds |-> Append(batches[a].cmds, c)]]

\* batches that keep the commands of the first round
KeepBatches(batches) == batches

\* buildRedirectBatches: bt.cmds = nil for every batch of the map
ClearBatches(batches) == [a \in Addrs |-> [batches[a] EXCEPT !.cmds = <<>>]]

\* runBatches has returned: doRedirect starts buildRedirectBatches, which
\* clears the commands of every batch
FlWait1 ==
  /\ cpc = "fl_wait1"
  /\ BatchesDone
  /\ bt' = NoTasks
  /\ ppl' = [ppl EXCEPT !.batches = ClearBatches(@)]
  /\ fl' = [k |-> 1, reload |-> FALSE, count |-> 0]
  /\ cpc' = "fl_redir"
  /\ UNCHANGED <<poolVars, reloadVars, connVars, doVars, nSends, nLookups, inp, co, ss, ret, obs>>

\* buildRedirectBatches: one command of the loop; onRedir is asked until it
\* has scheduled a reload; here its test of the table
FlRedir ==
  /\ cpc = "fl_redir"
  /\ fl.k <= Len(ppl.cmds)
  /\ IF ppl.cmds[fl.k].ri = NoRedir
     THEN /\ fl' = [fl EXCEPT !.k = @ + 1]
          /\ UNCHANGED <<ppl, cpc>>
     ELSE IF ~fl.reload /\ onRedirDecide(slotAddrMap, ppl.cmds[fl.k].ri)
     THEN /\ cpc' = "fl_redirWrite"
          /\ UNCHANGED <<ppl, fl>>
     ELSE /\ ppl' = [ppl EXCEPT !.batches = AddToRedirBatch(@, fl.k)]
          /\ fl' = [fl EXCEPT !.k = @ + 1, !.count = @ + 1]
          /\ UNCHANGED cpc
  /\ UNCHANGED <<poolVars, reloadVars, connVars, doVars, bt, nSends, nLookups, inp, co, ss, ret,
                 obs>>

\* buildRedirectBatches: onRedir's write and go cp.reloadSlotMaping()
FlRedirWrite ==
  /\ cpc = "fl_redirWrite"
  /\ IdleTasks # {}
  /\ slotAddrMap' = onRedirWrite(slotAddrMap, ppl.cmds[fl.k].ri)
  /\ rt' = SpawnReload
  /\ obs' = [obs EXCEPT !.sched = @ + 1]
  /\ ppl' = [ppl EXCEPT !.batches = AddToRedirBatch(@, fl.k)]
  /\ fl' = [fl EXCEPT !.k = @ + 1, !.count = @ + 1, !.reload = TRUE]
  /\ cpc' = "fl_redir"
  /\ UNCHANGED <<slots, connPools, pools, reloading, muLocked, hasFactory, nReloadCalls,
                 connVars, doVars, bt, nSends, nLookups, inp, co, ss, ret>>

\* doRedirect: with redirected commands the batches run again; flush then
\* sets flushed and returns
FlRedirDone ==
  /\ cpc = "fl_redir"
  /\ fl.k > Len(ppl.cmds)
  /\ IF fl.count > 0
     THEN /\ bt' = RunBatches(ppl.batches)
          /\ cpc' = "fl_wait2"
          /\ UNCHANGED <<ppl, ret>>
     ELSE /\ ppl' = [ppl EXCEPT !.flushed = TRUE]
          /\ ret' = [call |-> "Flush", err |-> NoErr]
          /\ cpc' = "idle"
          /\ UNCHANGED bt
  /\ fl' = NoFlush
  /\ UNCHANGED <<poolVars, reloadVars, connVars, doVars, nSends, nLookups, inp, co, ss, obs>>

\* a redirect round that is followed by another buildRedirectBatches
FlWait2Loop ==
  /\ cpc = "fl_wait2"
  /\ BatchesDone
  /\ bt' = NoTasks
  /\ ppl' = [ppl EXCEPT !.batches = ClearBatches(@)]
  /\ fl' = [k |-> 1, reload |-> FALSE, count |-> 0]
  /\ cpc' = "fl_redir"
  /\ UNCHANGED <<poolVars, reloadVars, connVars, doVars, nSends, nLookups, inp, co, ss, ret,
                 obs>>

\* the redirect round's runBatches has returned: flushed is set
FlWait2 ==
  /\ cpc = "fl_wait2"
  /\ BatchesDone
  /\ bt' = NoTasks
  /\ ppl' = [ppl EXCEPT !.flushed = TRUE]
  /\ ret' = [call |-> "Flush", err |-> NoErr]
  /\ cpc' = "idle"
  /\ UNCHANGED <<poolVars, reloadVars, connVars, doVars, fl, nSends, nLookups, inp, co, ss, obs>>

FlushStep ==
  \/ FlushCall
  \/ FlBuild
  \/ FlWait1
  \/ FlRedir
  \/ FlRedirWrite
  \/ FlRedirDone
  \/ FlWait2

\* a reset that leaves the batches in the map
resetKeepBatches(p) == [p EXCEPT !.cmds = <<>>, !.flushed = FALSE, !.recvPos = -1]

\* reset: bt.conn.Close() for every batch of the map that has a connection
AfterReset(n, p) ==
  [a \in Addrs |-> IF p.batches[a].exists /\ p.batches[a].conn # NoConn
                   THEN n[a] - 1 ELSE n[a]]

\* reset: the commands, the flag, the cursor and the batches are cleared
reset(p) == [p EXCEPT !.cmds = <<>>, !.flushed = FALSE, !.recvPos = -1,
                      !.batches = [a \in Addrs |-> NoBatch]]

RecvErr(text) == [call |-> "Receive", reply |-> NoReply, err |-> LocalErr(text),
                  id |-> 0, ord |-> 0, tx |-> <<>>, rx |-> <<>>]

\* the cursor after receive has advanced it
NextRecvPos(p) == p.recvPos + 1

\* Receive: the reply of the next command in p.cmds; the last one resets
Receive ==
  /\ cpc = "idle"
  /\ ~mu
  /\ IF ~ppl.exists
     THEN /\ ret' = RecvErr("no send request before")
          /\ UNCHANGED <<ppl, lastOp, obs>>
     ELSE /\ lastOp' = OpPipeLine
          /\ IF ~ppl.flushed
             THEN /\ ret' = RecvErr("need to flush before receive")
                  /\ UNCHANGED <<ppl, obs>>
             ELSE IF Len(ppl.cmds) = 0
             THEN /\ ret' = [call |-> "Receive", reply |-> NoReply, err |-> NoErr,
                             id |-> 0, ord |-> 0, tx |-> <<>>, rx |-> <<>>]
                  /\ UNCHANGED <<ppl, obs>>
             ELSE IF ppl.recvPos >= Len(ppl.cmds)
             THEN /\ ret' = RecvErr("no more reply")
                  /\ UNCHANGED <<ppl, obs>>
             ELSE LET pos == NextRecvPos(ppl)
                      c == ppl.cmds[pos + 1]
                  IN /\ ret' = [call |-> "Receive", reply |-> c.reply,
                                err |-> c.reply_err, id |-> c.id,
                                ord |-> obs.nrcv + 1, tx |-> c.tx, rx |-> c.rx]
                     /\ IF pos = Len(ppl.cmds) - 1
                        THEN /\ ppl' = reset(ppl)
                             /\ obs' = [obs EXCEPT !.nrcv = @ + 1,
                                                   !.held = AfterReset(@, ppl)]
                        ELSE /\ ppl' = [ppl EXCEPT !.recvPos = pos]
                             /\ obs' = [obs EXCEPT !.nrcv = @ + 1]
  /\ UNCHANGED <<poolVars, reloadVars, cpc, redir, mu, lastAddr, lastRc, doVars, bt, fl,
                 nSends, nLookups, inp, co, ss>>

\* Close of the facade: with a pipeLiner it is the pipeLiner's Close, a reset;
\* without one the cached connection is closed and forgotten
Close ==
  /\ cpc = "idle"
  /\ ~mu
  /\ IF ppl.exists
     THEN /\ ppl' = reset(ppl)
          /\ obs' = [obs EXCEPT !.held = AfterReset(@, ppl)]
          /\ UNCHANGED <<lastAddr, lastRc>>
     ELSE /\ obs' = [obs EXCEPT !.open = Closed(@, lastRc)]
          /\ lastRc' = NoConn
          /\ lastAddr' = IF lastRc # NoConn THEN NoAddr ELSE lastAddr
          /\ UNCHANGED ppl
  /\ ret' = [call |-> "Close", err |-> NoErr]
  /\ UNCHANGED <<poolVars, reloadVars, cpc, redir, mu, lastOp, doVars, bt, fl, nSends,
                 nLookups, inp, co, ss>>

(******************************* MSET and MGET *****************************)
\* keys of two hash tags, two of them in one slot
MultiKeys == {<<"{", "a", "}", "1">>, <<"{", "b", "}", "1">>, <<"{", "a", "}", "2">>}
\* the key lists of a call: up to MaxMultiKeys different keys
MultiKeyLists ==
  {ks \in SeqsUpTo(MultiKeys, MaxMultiKeys) :
     /\ ks # <<>>
     /\ \A i, j \in 1..Len(ks) : i # j => ks[i] # ks[j]}

\* Slot, the exported hash slot of a key
Slot(key) == slot(key)
\* fmt.Sprintf("%s", arg) of a string argument
Sprintf(arg) == arg.v
\* the value the application sets for key k
ValueOf(k) == Str(<<"x">> \o k)

\* the arguments of the call: keys for MGET, keys and values for MSET
MultiArgs(cmd, ks) ==
  IF cmd = "MGET" THEN [i \in 1..Len(ks) |-> Str(ks[i])]
  ELSE [i \in 1..(2 * Len(ks)) |->
          IF i % 2 = 1 THEN Str(ks[(i + 1) \div 2]) ELSE ValueOf(ks[i \div 2])]
\* the argument lists of a call: for MSET also those that end with a key
\* that has no value
MultiArgLists(cmd) ==
  {MultiArgs(cmd, ks) : ks \in MultiKeyLists}
  \cup (IF cmd = "MGET" THEN {}
        ELSE {SubSeq(MultiArgs(cmd, ks), 1, 2 * Len(ks) - 1) : ks \in MultiKeyLists})

\* a call that always finds a value after each key
UnpairedNever(cmd, args) == FALSE

\* multiset: vk >= len(args), the loop comes to a key with no value after it
Unpaired(cmd, args) == cmd = "MSET" /\ Len(args) % 2 = 1
\* the arguments the loop has grouped when it ends: all of them, or those
\* before the key that has no value
Grouped(cmd, args) ==
  IF cmd = "MGET" THEN args ELSE SubSeq(args, 1, 2 * (Len(args) \div 2))

\* the keys among the arguments, in their order
KeysOf(cmd, args) ==
  IF cmd = "MGET" THEN [i \in 1..Len(args) |-> Sprintf(args[i])]
  ELSE [i \in 1..(Len(args) \div 2) |-> Sprintf(args[2 * i - 1])]

\* the arguments from position i on that belong to slot sl: step 1 for MGET,
\* step 2 with the value after the key for MSET
RECURSIVE GroupFrom(_, _, _, _)
GroupFrom(cmd, args, sl, i) ==
  IF i > Len(args) THEN <<>>
  ELSE LET step == IF cmd = "MGET" THEN 1 ELSE 2
           own == IF Slot(Sprintf(args[i])) # sl THEN <<>>
                  ELSE IF cmd = "MGET" THEN <<Str(Sprintf(args[i]))>>
                  ELSE <<Str(Sprintf(args[i])), args[i + 1]>>
       IN own \o GroupFrom(cmd, args, sl, i + step)

\* cmdMap: the arguments of each slot's sub-command, in the order of the call
CmdMap(cmd, args) ==
  LET ks == KeysOf(cmd, args) IN
    [sl \in {Slot(ks[i]) : i \in 1..Len(ks)} |-> GroupFrom(cmd, args, sl, 1)]

\* the orders `for slot := range cmdMap` can visit the slots in
MapOrders(S) ==
  {o \in [1..Cardinality(S) -> S] : \A sl \in S : \E j \in 1..Cardinality(S) : o[j] = sl}

IndexOf(seq, x) == CHOOSE j \in 1..Len(seq) : seq[j] = x

\* Do with MSET or MGET: hookDo hands the call to multiset / multiget, which
\* group the arguments by slot, queue one sub-command per slot on a pipeLiner
\* of their own in map order, and flush it
MultiStart(cmd) ==
  /\ cpc = "idle"
  /\ nDo < MaxDo
  /\ \E args \in MultiArgLists(cmd) :
       IF Unpaired(cmd, args)
       THEN /\ d' = [cmd |-> cmd, args |-> args, keys |-> KeysOf(cmd, args),
                     cmdMap |-> <<>>, orderSlots |-> <<>>]
            /\ ret' = [call |-> "Do", cmd |-> cmd, keys |-> KeysOf(cmd, args),
                       order |-> <<>>, reply |-> NoReply,
                       err |-> LocalErr("args length exeption for mset"),
                       sub |-> <<>>]
            /\ cpc' = "idle"
            /\ UNCHANGED ppl
       ELSE LET cmdMap == CmdMap(cmd, Grouped(cmd, args)) IN
              \E orderSlots \in MapOrders(DOMAIN cmdMap) :
                /\ d' = [cmd |-> cmd, args |-> args, keys |-> KeysOf(cmd, args),
                         cmdMap |-> cmdMap, orderSlots |-> orderSlots]
                /\ ppl' = [newPipeliner EXCEPT !.cmds =
                             [j \in 1..Len(orderSlots) |->
                                NewCmdOf(orderSlots[j], cmd, cmdMap[orderSlots[j]])]]
                /\ ret' = NoRet
                /\ cpc' = "fl_build"
  /\ nDo' = nDo + 1
  /\ obs' = FlushObs
  /\ UNCHANGED <<poolVars, reloadVars, connVars, bt, fl, nSends, nLookups, inp, co, ss>>
MsetStart == MultiStart("MSET")
MgetStart == MultiStart("MGET")

\* what the receive calls of the loop return, one per queued sub-command
Received(p) ==
  [j \in 1..Len(p.cmds) |-> [reply |-> p.cmds[j].reply, err |-> p.cmds[j].reply_err]]

\* the index of the first receive that returns an error, 0 if none does
FirstError(rs) ==
  IF \E j \in 1..Len(rs) : rs[j].err # NoErr
  THEN CHOOSE j \in 1..Len(rs) :
         rs[j].err # NoErr /\ \A i \in 1..(j - 1) : rs[i].err = NoErr
  ELSE 0

\* a lookup that pairs the replies with the slots the other way round
GroupReplyReversed(rs, orderSlots, sl) == rs[Len(rs) + 1 - IndexOf(orderSlots, sl)]

\* multiget: the reply taken for slot sl, the one received at its place in
\* orderSlots
GroupReply(rs, orderSlots, sl) == rs[IndexOf(orderSlots, sl)]

\* a resMap that is nil for every key once one slot's reply is not an array
\* of that slot's key count
ResMapAllOrNone(rs, cmdMap, orderSlots, key) ==
  LET grp == cmdMap[Slot(key)]
      i == CHOOSE i \in 1..Len(grp) : Sprintf(grp[i]) = key
  IN IF \A sl \in DOMAIN cmdMap :
          /\ GroupReply(rs, orderSlots, sl).reply.kind = "array"
          /\ Len(GroupReply(rs, orderSlots, sl).reply.vals) = Len(cmdMap[sl])
     THEN GroupReply(rs, orderSlots, Slot(key)).reply.vals[i] ELSE NoReply

\* multiget: resMap[key], the element of the key's place in its slot's reply,
\* nil if that reply is not an array of the slot's key count
ResMap(rs, cmdMap, orderSlots, key) ==
  LET sl == Slot(key)
      grp == cmdMap[sl]
      reply == GroupReply(rs, orderSlots, sl).reply
      i == CHOOSE i \in 1..Len(grp) :
             /\ Sprintf(grp[i]) = key
             /\ \A j \in (i + 1)..Len(grp) : Sprintf(grp[j]) # key
  IN IF reply.kind = "array" /\ Len(reply.vals) = Len(grp)
     THEN reply.vals[i] ELSE NoReply

\* multiset / multiget after the flush: an error of the flush or of a receive
\* is returned; else MSET returns the last reply and MGET the values in the
\* order of its keys; the deferred Close drops the pipeLiner
MultiFinish ==
  /\ cpc = "idle"
  /\ d.cmd \in {"MSET", "MGET"}
  /\ ret.call = "Flush"
  /\ LET rs == Received(ppl)
         e == FirstError(rs)
         sub == [sl \in DOMAIN d.cmdMap |->
                   LET c == ppl.cmds[CHOOSE j \in 1..Len(ppl.cmds) : ppl.cmds[j].id = sl]
                   IN [reply |-> c.reply, tx |-> c.tx, rx |-> c.rx]]
         done(reply, err) == [call |-> "Do", cmd |-> d.cmd, keys |-> d.keys,
                              order |-> d.orderSlots, reply |-> reply,
                              err |-> err, sub |-> sub]
     IN ret' = IF ret.err # NoErr THEN done(NoReply, ret.err)
               ELSE IF e # 0 THEN done(NoReply, rs[e].err)
               ELSE IF d.cmd = "MSET" THEN done(rs[Len(rs)].reply, NoErr)
               ELSE done([kind |-> "array",
                          vals |-> [i \in 1..Len(d.keys) |->
                                      ResMap(rs, d.cmdMap, d.orderSlots, d.keys[i])]],
                         NoErr)
  /\ d' = NoDo
  /\ ppl' = NoPpl
  /\ obs' = [obs EXCEPT !.held = AfterReset(@, ppl)]
  /\ UNCHANGED <<poolVars, reloadVars, cpc, connVars, nDo, bt, fl, nSends, nLookups,
                 inp, co, ss>>

(*************************** direct address lookup *************************)
LookupSlots == Slots \cup {TotalSlots}
LookupArgs == {<<s>> : s \in LookupSlots} \cup {<<s, t>> : s, t \in LookupSlots}

\* GetAddrsBySlots called by the application; a panic ends the program
Lookup ==
  /\ cpc = "idle"
  /\ nLookups < MaxLookups
  /\ ~muLocked
  /\ \E sls \in LookupArgs, readOnly \in BOOLEAN :
       \E r \in GetAddrsBySlots(slotAddrMap, sls, readOnly) :
         /\ ret' = [call |-> "GetAddrsBySlots", slots |-> sls, readOnly |-> readOnly,
                    addrs |-> r.addrs, err |-> r.err]
         /\ cpc' = IF r.err = "panic" THEN "panic" ELSE "idle"
  /\ nLookups' = nLookups + 1
  /\ UNCHANGED <<poolVars, reloadVars, connVars, doVars, pplVars, inp, co, ss, obs>>

(************************ the package's pure functions *********************)
\* keys without braces, and what can follow a hash tag
PlainKeys == SeqsUpTo({"a", "b"}, MaxKeyLen)
Suffixes == SeqsUpTo({"a", "{", "}"}, MaxKeyLen)
\* the key {x}y
Tagged(x, y) == <<"{">> \o x \o <<"}">> \o y

\* command names, and argument lists of strings and one value of another type
CmdNames == {"GET", "EVAL", "EVAL_RO", "EVALSHA", "EVALSHA_RO"}
ArgVals == {Str(KeyA), Str(KeyB), [t |-> "int", v |-> 1]}
ArgLists == SeqsUpTo(ArgVals, MaxArgs)

\* errors a connection can return: one that is not a redis.Error, and server
\* errors of two to four fields
SlotTokens == {Itoa(0), Itoa(slot(KeyA)), Itoa(TotalSlots), Itoa(-1), "x"}
ErrFields ==
  LET t0 == {"MOVED", "ASK", "ERR"} IN
    {<<k, s>> : k \in t0, s \in SlotTokens}
    \cup {<<k, s, a>> : k \in t0, s \in SlotTokens, a \in {AddrA, AddrB}}
    \cup {<<k, s, AddrB, "x">> : k \in t0, s \in SlotTokens}
ErrValues == {LocalErr("EOF")} \cup {RedisError(f, NoAddr, 0) : f \in ErrFields}

NoInp == [fn |-> "none"]
PureInputs ==
  {[fn |-> "slot", x |-> x, y |-> y] : x \in PlainKeys, y \in Suffixes}
  \cup {[fn |-> "CmdSlot", cmd |-> c, args |-> a] : c \in CmdNames, a \in ArgLists}
  \cup {[fn |-> "ParseRedirInfo", err |-> e] : e \in ErrValues}

\* slot(x) and slot({x}y)
SlotCall ==
  /\ inp.fn = "slot"
  /\ ret' = [call |-> "slot", x |-> inp.x, y |-> inp.y,
             sx |-> slot(inp.x), sxy |-> slot(Tagged(inp.x, inp.y))]
  /\ UNCHANGED <<poolVars, reloadVars, cpc, connVars, doVars, pplVars, nLookups, inp, co, ss,
                 obs>>

\* CmdSlot(cmd, args...)
CmdSlotCall ==
  /\ inp.fn = "CmdSlot"
  /\ ret' = [call |-> "CmdSlot", cmd |-> inp.cmd, args |-> inp.args,
             slot |-> CmdSlot(inp.cmd, inp.args)]
  /\ UNCHANGED <<poolVars, reloadVars, cpc, connVars, doVars, pplVars, nLookups, inp, co, ss,
                 obs>>

\* ParseRedirInfo(err)
ParseCall ==
  /\ inp.fn = "ParseRedirInfo"
  /\ ret = NoRet
  /\ ret' = [call |-> "ParseRedirInfo", err |-> inp.err,
             ri |-> ParseRedirInfo(inp.err)]
  /\ UNCHANGED <<poolVars, reloadVars, cpc, connVars, doVars, pplVars, nLookups, inp, co, ss,
                 obs>>

\* cp.onRedir(ri) with the RedirInfo the parse gave, as Do and batch.run call
\* it; slotAddrMap is an array, and a negative index panics
OnRedirCall ==
  /\ cpc = "idle"
  /\ ret.call = "ParseRedirInfo" /\ ret.ri # NoRedir
  /\ IF ret.ri.Kind = "MOVED" /\ ret.ri.Slot < 0
     THEN /\ cpc' = "panic"
          /\ ret' = [call |-> "onRedir", ri |-> ret.ri, doReload |-> FALSE]
          /\ UNCHANGED <<slotAddrMap, rt>>
     ELSE IF onRedirDecide(slotAddrMap, ret.ri)
     THEN /\ IdleTasks # {}
          /\ slotAddrMap' = onRedirWrite(slotAddrMap, ret.ri)
          /\ rt' = SpawnReload
          /\ ret' = [call |-> "onRedir", ri |-> ret.ri, doReload |-> TRUE]
          /\ UNCHANGED cpc
     ELSE /\ ret' = [call |-> "onRedir", ri |-> ret.ri, doReload |-> FALSE]
          /\ UNCHANGED <<slotAddrMap, rt, cpc>>
  /\ UNCHANGED <<slots, connPools, pools, reloading, muLocked, hasFactory, nReloadCalls,
                 connVars, doVars, pplVars, nLookups, inp, co, ss, obs>>

(****************************** sharded pub/sub ****************************)
\* a ShardedPubSubConn as GetShardedPubSubConn returns it. conn: the connection
\* it holds; chs, slot, addr, task: the locals of the running SSubscribe;
\* n: the SSubscribe calls made; sent: what was written to connections;
\* closes: the conn.Close() calls made
NoSub == [pc |-> "idle", conn |-> NoConn, chs |-> <<>>, slot |-> -1, addr |-> NoAddr,
          task |-> 0, n |-> 0, sent |-> <<>>, closes |-> 0]
\* channel names in the slot of a, in the slot of b, the empty name, and a
\* value that is not a string
Channels == {Str(KeyA), Str(KeyB), Str(<<"{", "a", "}", "1">>), Str(<<>>),
             [t |-> "int", v |-> 1]}
ChannelLists == SeqsUpTo(Channels, MaxChannels)
SubRet(chs, err) == [call |-> "SSubscribe", channels |-> chs, err |-> err]

\* a ChnSlot that takes the slot of the first named channel and compares none
RECURSIVE ChnSlotFirst(_)
ChnSlotFirst(channel) ==
  IF channel = <<>> THEN [slot |-> -1, err |-> NoErr]
  ELSE IF Head(channel).t # "string"
    THEN [slot |-> -1, err |-> LocalErr("unexpected type for String")]
  ELSE IF Len(Head(channel).v) > 0 THEN [slot |-> Slot(Head(channel).v), err |-> NoErr]
  ELSE ChnSlotFirst(Tail(channel))

\* ChnSlot, its loop from a given channel on with the slot found so far:
\* redis.String of the channel, empty names skipped, the first slot kept and
\* every later one compared with it
RECURSIVE ChnSlotFrom(_, _)
ChnSlotFrom(channel, sl) ==
  IF channel = <<>> THEN [slot |-> sl, err |-> NoErr]
  ELSE IF Head(channel).t # "string"
    THEN [slot |-> -1, err |-> LocalErr("unexpected type for String")]
  ELSE IF Len(Head(channel).v) = 0 THEN ChnSlotFrom(Tail(channel), sl)
  ELSE IF sl < 0 THEN ChnSlotFrom(Tail(channel), Slot(Head(channel).v))
  ELSE IF Slot(Head(channel).v) # sl
    THEN [slot |-> -1, err |-> LocalErr("channels must be in the same slot")]
  ELSE ChnSlotFrom(Tail(channel), sl)

\* ChnSlot: the one slot of the channels, -1 for none
ChnSlot(channel) == ChnSlotFrom(channel, -1)

\* SSubscribe up to getRedisConnBySlot: an error of ChnSlot is returned at
\* once; else the held connection is closed and dropped
SSubscribe ==
  /\ Running
  /\ ss.pc = "idle"
  /\ ss.n < MaxSubs
  /\ \E chs \in ChannelLists :
       LET r == ChnSlot(chs) IN
         IF r.err # NoErr
         THEN /\ ss' = [ss EXCEPT !.n = @ + 1, !.chs = chs]
              /\ ret' = SubRet(chs, r.err)
         ELSE /\ ss' = [ss EXCEPT !.n = @ + 1, !.chs = chs, !.slot = r.slot,
                                  !.pc = "slot", !.conn = NoConn,
                                  !.closes = IF ss.conn # NoConn THEN @ + 1 ELSE @]
              /\ ret' = NoRet
  /\ UNCHANGED <<poolVars, reloadVars, cpc, connVars, doVars, pplVars, nLookups, inp,
                 co, obs>>

\* getRedisConnBySlot: the primary of the slot under the lock; a slot below 0
\* indexes the table out of range; an empty entry starts reloadSlotMaping
SsSlot ==
  /\ Running
  /\ ss.pc = "slot"
  /\ ~muLocked
  /\ IF ss.slot >= TotalSlots
     THEN /\ ss' = [ss EXCEPT !.pc = "idle"]
          /\ ret' = SubRet(ss.chs, LocalErr("invalid slot"))
          /\ UNCHANGED <<cpc, rt>>
     ELSE IF ss.slot < 0
     THEN /\ cpc' = "panic"
          /\ UNCHANGED <<ss, ret, rt>>
     ELSE IF Len(slotAddrMap[ss.slot]) > 0
     THEN /\ ss' = [ss EXCEPT !.pc = "borrow", !.addr = slotAddrMap[ss.slot][1]]
          /\ UNCHANGED <<cpc, ret, rt>>
     ELSE /\ IdleTasks # {}
          /\ rt' = SpawnReload
          /\ ss' = [ss EXCEPT !.pc = "reload", !.task = IdleTask]
          /\ UNCHANGED <<cpc, ret>>
  /\ UNCHANGED <<poolVars, nReloadCalls, connVars, doVars, pplVars, nLookups, inp, co,
                 obs>>

\* getRedisConnBySlot once its reloadSlotMaping has returned: the table is
\* read again
SsReloaded ==
  /\ Running
  /\ ss.pc = "reload"
  /\ rt[ss.task].pc = "idle"
  /\ ~muLocked
  /\ IF Len(slotAddrMap[ss.slot]) = 0
     THEN /\ ss' = [ss EXCEPT !.pc = "idle", !.task = 0]
          /\ ret' = SubRet(ss.chs, LocalErr("no slots"))
     ELSE /\ ss' = [ss EXCEPT !.pc = "borrow", !.task = 0,
                              !.addr = slotAddrMap[ss.slot][1]]
          /\ UNCHANGED ret
  /\ UNCHANGED <<poolVars, reloadVars, cpc, connVars, doVars, pplVars, nLookups, inp,
                 co, obs>>

\* c.conn, err = getRedisConnByAddr(addr), then Send("SSUBSCRIBE", channel...)
\* and Flush on it; each can fail
SsBorrow ==
  /\ Running
  /\ ss.pc = "borrow"
  /\ ~muLocked
  /\ connPools' = PoolsAfterGet(ss.addr)
  /\ pools' = FactoryAfterGet(ss.addr)
  /\ \/ /\ ss' = [ss EXCEPT !.pc = "idle"]
        /\ ret' = SubRet(ss.chs, LocalErr("get"))
     \/ /\ ss' = [ss EXCEPT !.pc = "idle", !.conn = ss.addr]
        /\ ret' = SubRet(ss.chs, LocalErr("send"))
     \/ /\ ss' = [ss EXCEPT !.pc = "idle", !.conn = ss.addr,
                            !.sent = Append(@, [to |-> ss.addr, cmd |-> "SSUBSCRIBE",
                                                args |-> ss.chs])]
        /\ ret' = SubRet(ss.chs, NoErr)
  /\ UNCHANGED <<slotAddrMap, slots, reloading, muLocked, hasFactory, reloadVars, cpc,
                 connVars, doVars, pplVars, nLookups, inp, co, obs>>

SubStep ==
  \/ SSubscribe
  \/ SsSlot
  \/ SsReloaded
  \/ SsBorrow

(************************ checkouts and ClusterPool.Close ******************)
\* the goroutines of the application that check a connection out by address
CoProcs == 1..MaxCheckouts
NoCheckout == [pc |-> "idle", addr |-> NoAddr, np |-> 0, n |-> 0]
NoCheckouts == [p \in CoProcs |-> NoCheckout]
\* the addresses they ask for, the empty one among them
CoAddrs == {AddrA, AddrB, NoAddr}
CoRet(p, addr, np, conn, err) ==
  [call |-> "getRedisConnByAddr", by |-> p, addr |-> addr, np |-> np, conn |-> conn,
   err |-> err]

\* getRedisConnByAddrContext is called: an empty address is refused
CoStart(p) ==
  /\ co[p].pc = "idle"
  /\ co[p].n < MaxCoCalls
  /\ \E addr \in CoAddrs :
       IF addr = NoAddr
       THEN /\ co' = [co EXCEPT ![p].n = @ + 1]
            /\ ret' = CoRet(p, addr, 0, NoConn, LocalErr("invalid addr"))
       ELSE /\ co' = [co EXCEPT ![p] = [pc |-> "lock", addr |-> addr, np |-> 0,
                                        n |-> @.n + 1]]
            /\ UNCHANGED ret
  /\ UNCHANGED <<poolVars, reloadVars, cpc, connVars, doVars, pplVars, nLookups, inp,
                 ss, obs>>

\* a checkout that goes on without taking the mutex
CoLockFree(p) ==
  /\ co[p].pc = "lock"
  /\ co' = [co EXCEPT ![p].pc = "check"]
  /\ UNCHANGED <<poolVars, reloadVars, cpc, connVars, doVars, pplVars, nLookups, inp,
                 ss, ret, obs>>

\* cp.mu.Lock()
CoLock(p) ==
  /\ co[p].pc = "lock"
  /\ ~muLocked
  /\ muLocked' = TRUE
  /\ co' = [co EXCEPT ![p].pc = "check"]
  /\ UNCHANGED <<slotAddrMap, slots, connPools, pools, reloading, hasFactory,
                 reloadVars, cpc, connVars, doVars, pplVars, nLookups, inp, ss, ret, obs>>

\* if cp.connPools[addr] == nil: without a factory unlock and dial; with one go
\* on to call it; else take the pool the map holds
CoCheck(p) ==
  /\ co[p].pc = "check"
  /\ IF co[p].addr \notin connPools
     THEN IF ~hasFactory
          THEN /\ muLocked' = FALSE
               /\ co' = [co EXCEPT ![p].pc = "idle"]
               /\ \E ok \in BOOLEAN :
                    ret' = CoRet(p, co[p].addr, 0, IF ok THEN co[p].addr ELSE NoConn,
                                 IF ok THEN NoErr ELSE LocalErr("dial"))
          ELSE /\ co' = [co EXCEPT ![p].pc = "create"]
               /\ UNCHANGED <<muLocked, ret>>
     ELSE /\ co' = [co EXCEPT ![p].pc = "unlock", ![p].np = pools.reg[co[p].addr]]
          /\ UNCHANGED <<muLocked, ret>>
  /\ UNCHANGED <<slotAddrMap, slots, connPools, pools, reloading, hasFactory,
                 reloadVars, cpc, connVars, doVars, pplVars, nLookups, inp, ss, obs>>

\* np, err = cp.CreateConnPool(ctx, addr): an error unlocks and returns, a pool
\* is put in the map
CoCreate(p) ==
  /\ co[p].pc = "create"
  /\ \/ /\ pools' = [pools EXCEPT !.calls[co[p].addr] = @ + 1]
        /\ muLocked' = FALSE
        /\ co' = [co EXCEPT ![p].pc = "idle"]
        /\ ret' = CoRet(p, co[p].addr, 0, NoConn, LocalErr("CreateConnPool"))
        /\ UNCHANGED connPools
     \/ /\ pools' = Created(co[p].addr)
        /\ connPools' = connPools \cup {co[p].addr}
        /\ co' = [co EXCEPT ![p].pc = "unlock", ![p].np = pools.calls[co[p].addr] + 1]
        /\ UNCHANGED <<muLocked, ret>>
  /\ UNCHANGED <<slotAddrMap, slots, reloading, hasFactory, reloadVars, cpc, connVars,
                 doVars, pplVars, nLookups, inp, ss, obs>>

\* cp.mu.Unlock()
CoUnlock(p) ==
  /\ co[p].pc = "unlock"
  /\ muLocked' = FALSE
  /\ co' = [co EXCEPT ![p].pc = "get"]
  /\ UNCHANGED <<slotAddrMap, slots, connPools, pools, reloading, hasFactory,
                 reloadVars, cpc, connVars, doVars, pplVars, nLookups, inp, ss, ret, obs>>

\* np.GetContext(ctx): a connection of the pool or an error; a closed pool
\* gives no connection
CoGet(p) ==
  /\ co[p].pc = "get"
  /\ \E ok \in BOOLEAN :
       /\ ok => <<co[p].addr, co[p].np>> \notin pools.closed
       /\ ret' = CoRet(p, co[p].addr, co[p].np, IF ok THEN co[p].addr ELSE NoConn,
                       IF ok THEN NoErr ELSE LocalErr("get"))
  /\ co' = [co EXCEPT ![p].pc = "idle"]
  /\ UNCHANGED <<poolVars, reloadVars, cpc, connVars, doVars, pplVars, nLookups, inp,
                 ss, obs>>

CoStep(p) ==
  \/ CoStart(p)
  \/ CoLock(p)
  \/ CoCheck(p)
  \/ CoCreate(p)
  \/ CoUnlock(p)
  \/ CoGet(p)

\* a Close that leaves the table as it is
KeepTable(table) == table

\* Close: every slot of the table is left without owners
ClearTable(table) == [s \in DOMAIN table |-> <<>>]

\* ClusterPool.Close: under the mutex every pool of the map is closed and
\* deleted, the ranges are dropped and the table is cleared
PoolClose ==
  /\ ~muLocked
  /\ pools.closes < MaxPoolCloses
  /\ pools' = [pools EXCEPT !.closed = @ \cup {<<a, pools.reg[a]>> : a \in connPools},
                            !.reg = [a \in Addrs |-> 0],
                            !.closes = @ + 1]
  /\ connPools' = {}
  /\ slots' = <<>>
  /\ slotAddrMap' = ClearTable(slotAddrMap)
  /\ ret' = [call |-> "Close"]
  /\ UNCHANGED <<reloading, muLocked, hasFactory, reloadVars, cpc, connVars, doVars,
                 pplVars, nLookups, inp, co, ss, obs>>

(****************************** the whole system ***************************)
\* the pool as constructed: no table, no pool, nothing running
InitPool ==
  /\ slotAddrMap = [s \in Slots |-> <<>>]
  /\ slots = <<>>
  /\ connPools = {}
  /\ pools = NoPools
  /\ reloading = FALSE
  /\ muLocked = FALSE
  /\ hasFactory \in BOOLEAN
  /\ rt = [t \in ReloadTasks |-> DoneTask]
  /\ nReloadCalls = 0

\* the pool after the application's first ReloadSlotMapping has returned with
\* the table of rep, as the tests set it up before they use a facade
InitLoadedFrom(rep) ==
  /\ slots = ParseSlots(rep)
  /\ slotAddrMap = Install([s \in Slots |-> <<>>], ParseSlots(rep))
  /\ connPools = {}
  /\ pools = NoPools
  /\ reloading = FALSE
  /\ muLocked = FALSE
  /\ hasFactory = FALSE
  /\ rt = [t \in ReloadTasks |-> DoneTask]
  /\ nReloadCalls = 0
InitLoaded == \E rep \in {Topo1, Topo2} : InitLoadedFrom(rep)

\* a facade as Get or GetConnWithoutRedir returns it
InitConn ==
  /\ cpc = "idle"
  /\ redir \in BOOLEAN
  /\ mu = FALSE
  /\ lastAddr = NoAddr
  /\ lastRc = NoConn
  /\ lastOp = OpNil
  /\ d = NoDo
  /\ nDo = 0
  /\ ppl = NoPpl
  /\ bt = NoTasks
  /\ fl = NoFlush
  /\ nSends = 0
  /\ nLookups = 0
  /\ co = NoCheckouts
  /\ ss = NoSub
  /\ ret = NoRet
  /\ obs = NoObs

\* reloads alone, from the pool as constructed
InitReload == InitPool /\ InitConn /\ inp = NoInp
NextReload ==
  \/ ReloadSlotMapping
  \/ \E t \in ReloadTasks : ReloadStep(t)
SpecReload == InitReload /\ [][NextReload]_vars

\* reloads of a cluster that may answer with unassigned slots
ReloadStepShrunk(t) ==
  \/ ReloadCheck(t)
  \/ ReloadGetNodes(t)
  \/ ReloadTryShrunk(t)
  \/ ReloadUpdate(t)
  \/ ReloadClear(t)
NextShrunk ==
  \/ ReloadSlotMapping
  \/ \E t \in ReloadTasks : ReloadStepShrunk(t)
SpecShrunk == InitReload /\ [][NextShrunk]_vars

\* Do calls on a facade, with the reloads they start and the application's
InitDo == InitLoaded /\ InitConn /\ inp = NoInp
NextDo ==
  \/ ReloadSlotMapping
  \/ \E t \in ReloadTasks : ReloadStep(t)
  \/ DoStep
SpecDo == InitDo /\ [][NextDo]_vars

\* a Do, the Do that follows it, and the reloads their redirections start
NextRedo ==
  \/ \E t \in ReloadTasks : ReloadStep(t)
  \/ DoStep
  \/ DoNext
SpecRedo == InitDo /\ [][NextRedo]_vars

\* concurrent checkouts by address and ClusterPool.Close, on a loaded pool
\* with or without a pool factory
InitCheckout ==
  /\ \E rep \in {Topo1, Topo2} :
       /\ slots = ParseSlots(rep)
       /\ slotAddrMap = Install([s \in Slots |-> <<>>], ParseSlots(rep))
  /\ connPools = {}
  /\ pools = NoPools
  /\ reloading = FALSE
  /\ muLocked = FALSE
  /\ hasFactory \in BOOLEAN
  /\ rt = [t \in ReloadTasks |-> DoneTask]
  /\ nReloadCalls = 0
  /\ InitConn
  /\ inp = NoInp
NextCheckout ==
  \/ \E p \in CoProcs : CoStep(p)
  \/ PoolClose
SpecCheckout == InitCheckout /\ [][NextCheckout]_vars

\* SSubscribe calls on one sharded pub/sub facade of a loaded pool, which the
\* application may close, with the reloads an empty table starts
InitSub == InitLoadedFrom(Topo1) /\ InitConn /\ redir /\ inp = NoInp
NextSub ==
  \/ \E t \in ReloadTasks : ReloadStep(t)
  \/ SubStep
  \/ PoolClose
SpecSub == InitSub /\ [][NextSub]_vars

\* Do, Send and Close on one facade, with the reloads the Do calls start
NextClose ==
  \/ \E t \in ReloadTasks : ReloadStep(t)
  \/ DoStep
  \/ Send
  \/ Close
SpecClose == InitDo /\ [][NextClose]_vars

\* a facade of redirconn.go: Do calls, pipelined Sends, Receive and Close,
\* with the reloads they start
NextFacade ==
  \/ \E t \in ReloadTasks : ReloadStep(t)
  \/ DoStart
  \/ DoRoute
  \/ DoLockBorrow
  \/ DoCall
  \/ DoRedirRead
  \/ DoRedirWrite
  \/ DoBorrow2
  \/ DoCall2
  \/ Send
  \/ Receive
  \/ Close
SpecFacade == InitDo /\ [][NextFacade]_vars

\* a pipeline on a facade from Get, with the reloads its MOVED answers start
InitPipe == InitLoadedFrom(Topo1) /\ InitConn /\ redir /\ inp = NoInp
NextPipe ==
  \/ \E t \in ReloadTasks : ReloadStep(t)
  \/ Send
  \/ FlushStep
  \/ \E a \in Addrs : BatchStep(a)
  \/ Receive
  \/ Close
SpecPipe == InitPipe /\ [][NextPipe]_vars

\* address lookups on the tables reloads leave
InitLookup == InitPool /\ InitConn /\ inp = NoInp
NextLookup ==
  \/ ReloadSlotMapping
  \/ \E t \in ReloadTasks : ReloadStep(t)
  \/ Lookup
SpecLookup == InitLookup /\ [][NextLookup]_vars

\* one call of slot, CmdSlot or ParseRedirInfo on arguments of the
\* application's choice, and onRedir on what the parse gave
InitPure == InitLoadedFrom(Topo1) /\ InitConn /\ redir /\ inp \in PureInputs
NextPure ==
  \/ SlotCall
  \/ CmdSlotCall
  \/ ParseCall
  \/ OnRedirCall
  \/ \E t \in ReloadTasks : ReloadStep(t)
SpecPure == InitPure /\ [][NextPure]_vars

\* one Do of MGET on a loaded pool, with the reloads it starts
InitMulti == InitLoadedFrom(Topo1) /\ InitConn /\ redir /\ inp = NoInp
NextMget ==
  \/ \E t \in ReloadTasks : ReloadStep(t)
  \/ MgetStart
  \/ FlBuild
  \/ FlWait1
  \/ FlRedir
  \/ FlRedirWrite
  \/ FlRedirDone
  \/ FlWait2
  \/ \E a \in Addrs : BatchStep(a)
  \/ MultiFinish
SpecMget == InitMulti /\ [][NextMget]_vars

\* one Do of MSET on a loaded pool, with the reloads it starts
NextMset ==
  \/ \E t \in ReloadTasks : ReloadStep(t)
  \/ MsetStart
  \/ FlBuild
  \/ FlWait1
  \/ FlRedir
  \/ FlRedirWrite
  \/ FlRedirDone
  \/ FlWait2
  \/ \E a \in Addrs : BatchStep(a)
  \/ MultiFinish
SpecMset == InitMulti /\ [][NextMset]_vars

(******************************** properties *******************************)
\* the error is a MOVED or ASK that ParseRedirInfo reads
Redirected(err) == err # NoErr /\ ParseRedirInfo(err) # NoRedir
\* the node that sent the reply or the error of a result
ReplyFrom(r) == IF r.err # NoErr THEN r.err.from ELSE r.reply.from
\* a reloadSlotMaping call that has passed the test of the reloading flag
PastCheck == {"getNodes", "borrow", "update", "clear"}

\* C1: after a flush of n commands, the i-th Receive (1 <= i <= n) hands out
\* the i-th command sent, with the last answer read for it, and that answer
\* is the one a node gave to that very command.
C1_ReceiveInSendOrder ==
  (ret.call = "Receive" /\ ret.ord \in 1..Len(obs.grp)) =>
    /\ ret.id = obs.grp[ret.ord]
    /\ ret.id = obs.grp[1] + ret.ord - 1
    /\ ret.reply # NoReply => ret.reply.re = ret.id
    /\ ret.err # NoErr => ret.err.re = ret.id
    /\ ret.rx # <<>> => /\ ret.reply = ret.rx[Len(ret.rx)].reply
                        /\ ret.err = ret.rx[Len(ret.rx)].err
C1_Witness ==
  /\ ret.call = "Receive"
  /\ ret.ord = 2
  /\ Len(obs.grp) = 2
  /\ Len(ret.tx) = 2
  /\ ret.reply # NoReply

C3_MovedOnce ==
  (/\ ret.call = "Do"
   /\ Redirected(obs.first)
   /\ ParseRedirInfo(obs.first).Kind = "MOVED"
   /\ obs.decided
   /\ ret.err # obs.first) =>
    /\ obs.wire = <<obs.first.from, ParseRedirInfo(obs.first).Addr>>
    /\ ReplyFrom(ret) = ParseRedirInfo(obs.first).Addr
    /\ obs.tbl = <<ParseRedirInfo(obs.first).Addr>>
    /\ obs.sched = 1
C3_Witness ==
  /\ ret.call = "Do"
  /\ Redirected(obs.first)
  /\ ParseRedirInfo(obs.first).Kind = "MOVED"
  /\ obs.decided
  /\ Len(obs.wire) = 2
  /\ obs.sched = 1
  /\ ret.reply # NoReply

\* C4: a Do whose first answer is ASK s B, and which then reached B, made one
\* more request, to B, and returns what B answered; no step of the Do after
\* the ASK changes the table, the installed ranges, the reloading flag or the
\* running reloads.
C4_AskLeavesTable ==
  /\ []((/\ ret.call = "Do"
         /\ Redirected(obs.first)
         /\ ParseRedirInfo(obs.first).Kind = "ASK"
         /\ ret.err # obs.first) =>
          /\ obs.wire = <<obs.first.from, ParseRedirInfo(obs.first).Addr>>
          /\ ReplyFrom(ret) = ParseRedirInfo(obs.first).Addr
          /\ obs.sched = 0
          /\ ~obs.decided)
  /\ [][(d.ri.Kind = "ASK" /\ cpc' # cpc) =>
          /\ UNCHANGED <<slotAddrMap, slots, reloading, rt>>
          /\ cpc' # "do_redirWrite"]_vars
C4_Witness ==
  /\ ret.call = "Do"
  /\ Redirected(obs.first)
  /\ ParseRedirInfo(obs.first).Kind = "ASK"
  /\ Len(obs.wire) = 2
  /\ ret.reply # NoReply

\* C5: a Do makes at most two requests; when the second answer is itself a
\* MOVED or ASK, the Do returns that error, as the redirected node sent it.
C5_AtMostTwoCalls ==
  /\ Len(obs.wire) <= 2
  /\ (ret.call = "Do" /\ Len(obs.wire) = 2 /\ Redirected(ret.err)) =>
       /\ cpc = "idle"
       /\ ret.err.from = obs.wire[2]
       /\ ret.err # obs.first
C5_Witness ==
  /\ ret.call = "Do"
  /\ Len(obs.wire) = 2
  /\ Redirected(ret.err)

\* C6: whatever the number of reload calls, the application's and those a
\* MOVED started, at most one of them is past the test of the reloading flag,
\* so at most one asks for CLUSTER SLOTS.
C6_SingleFlight ==
  Cardinality({t \in ReloadTasks : rt[t].pc \in PastCheck}) <= 1
C6_Witness ==
  /\ nReloadCalls >= 1
  /\ obs.sched >= 1
  /\ \E t, u \in ReloadTasks : rt[t].pc = "update" /\ rt[u].pc = "check"

\* C7: a Do that has dealt with a MOVED can go on to borrow the connection
\* of the redirected address, whatever the reloads are doing.
C7_MovedDoProceeds ==
  (cpc = "do_borrow2" /\ d.ri.Kind = "MOVED") => ENABLED DoBorrow2

\* C8: every reload call that has not returned can take its next step, and
\* once none is running the reloading flag is false.
C8_ReloadsFinish ==
  /\ \A t \in ReloadTasks : rt[t].pc # "idle" => ENABLED ReloadStep(t)
  /\ (\A t \in ReloadTasks : rt[t].pc = "idle") => ~reloading

\* C9: on a facade made with redir = false, a Do whose first answer is MOVED
\* or ASK returns that error after one request.
C9_NoRedirNoReissue ==
  (~redir /\ ret.call = "Do" /\ Redirected(obs.first)) =>
    /\ Len(obs.wire) = 1
    /\ ret.err = obs.first

\* C10: a lookup with readOnly = false of slots below 16384 that all have
\* owners succeeds and gives one address per slot, in the order of the slots,
\* each the first owner of its slot.
C10_PrimaryLookup ==
  [][(/\ nLookups' = nLookups + 1
      /\ ~ret'.readOnly
      /\ \A i \in 1..Len(ret'.slots) :
           ret'.slots[i] < TotalSlots /\ slotAddrMap[ret'.slots[i]] # <<>>) =>
       /\ ret'.err = "nil"
       /\ Len(ret'.addrs) = Len(ret'.slots)
       /\ \A i \in 1..Len(ret'.slots) :
            ret'.addrs[i] = slotAddrMap[ret'.slots[i]][1]]_vars
C10_Witness ==
  /\ ret.call = "GetAddrsBySlots"
  /\ ~ret.readOnly
  /\ ret.err = "nil"
  /\ Len(ret.slots) = 2
  /\ Len(ret.addrs) = 2
  /\ ret.addrs[1] # ret.addrs[2]

\* the step is a GetAddrsBySlots call of the application
LookupCall == nLookups' = nLookups + 1
\* the replicas of a slot's owners, owners[1..] of the source
Replicas(sa) == {sa[j] : j \in 2..Len(sa)}

\* C11: a read-only lookup of slots below 16384 that all have a replica
\* succeeds and gives, for each slot, one of that slot's replicas.
C11_ReplicaLookup ==
  [][(/\ LookupCall
      /\ ret'.readOnly
      /\ \A i \in 1..Len(ret'.slots) :
           ret'.slots[i] < TotalSlots /\ Len(slotAddrMap[ret'.slots[i]]) >= 2) =>
       /\ ret'.err = "nil"
       /\ Len(ret'.addrs) = Len(ret'.slots)
       /\ \A i \in 1..Len(ret'.slots) :
            ret'.addrs[i] \in Replicas(slotAddrMap[ret'.slots[i]])]_vars

\* C12: a read-only lookup of slots below 16384 whose only owner is the
\* primary succeeds and gives the primary of each.
C12_PrimaryFallback ==
  [][(/\ LookupCall
      /\ ret'.readOnly
      /\ \A i \in 1..Len(ret'.slots) :
           ret'.slots[i] < TotalSlots /\ Len(slotAddrMap[ret'.slots[i]]) = 1) =>
       /\ ret'.err = "nil"
       /\ Len(ret'.addrs) = Len(ret'.slots)
       /\ \A i \in 1..Len(ret'.slots) :
            ret'.addrs[i] = slotAddrMap[ret'.slots[i]][1]]_vars

\* C13: a lookup in which some slot is 16384 or more, or has no owners,
\* returns "invalid slot" or "bad slot mapping" with no address at all, and
\* leaves the table as it was and the mutex free.
C13_LookupErrors ==
  [][(/\ LookupCall
      /\ \E i \in 1..Len(ret'.slots) :
           ret'.slots[i] >= TotalSlots \/ Len(slotAddrMap[ret'.slots[i]]) = 0) =>
       /\ ret'.err \in {"invalid slot", "bad slot mapping"}
       /\ ret'.addrs = <<>>
       /\ UNCHANGED <<slotAddrMap, slots>>
       /\ ~muLocked']_vars

\* C16: a command whose batch failed as a whole (connection not borrowed, or a
\* send or the flush failed, so that nothing of it was transmitted) is
\* returned by Receive with a nil reply and a non-nil error
C16_FailedBatchError ==
  (ret.call = "Receive" /\ ret.id # 0 /\ ret.tx = <<>>) =>
    (ret.reply = NoReply /\ ret.err # NoErr)

\* the step is a Receive call of the application
ReceiveCall ==
  /\ ret'.call = "Receive"
  /\ cpc = "idle"
  /\ UNCHANGED <<poolVars, reloadVars, cpc, bt, fl, nSends>>
\* every queued command was taken by the last Flush, and that Flush succeeded
FlushCovers(p) ==
  /\ p.exists /\ p.flushed
  /\ \A i \in 1..Len(p.cmds) : \E j \in 1..Len(obs.grp) : obs.grp[j] = p.cmds[i].id

\* C17: a Receive that is not preceded by a successful Flush of at least the
\* pending Sends returns an error and no reply, and leaves the queued commands
\* and the cursor as they were
C17_ReceiveNeedsFlush ==
  [][(ReceiveCall /\ ~FlushCovers(ppl)) =>
       /\ ret'.err # NoErr /\ ret'.err.kind = "local"
       /\ ret'.reply = NoReply
       /\ ppl' = ppl]_vars

\* the token is the decimal text of a non-negative integer
NonNegToken(tok) == \E n \in AtoiInts : n >= 0 /\ Itoa(n) = tok
\* a server error of exactly three fields, MOVED or ASK first, then a
\* non-negative integer
WellFormedRedir(err) ==
  /\ err.kind = "redis"
  /\ Len(err.parts) = 3
  /\ err.parts[1] \in {"MOVED", "ASK"}
  /\ NonNegToken(err.parts[2])

\* C18: ParseRedirInfo yields a RedirInfo exactly for a server error of three
\* fields whose first is MOVED or ASK and whose second is a non-negative
\* integer, so that onRedir is never called with a negative slot
C18_ParseRedirExact ==
  /\ ret.call = "ParseRedirInfo" => (ret.ri # NoRedir <=> WellFormedRedir(ret.err))
  /\ ret.call = "onRedir" => ret.ri.Slot >= 0

\* the commands whose key is the third argument
EvalFamily == {"EVAL", "EVAL_RO", "EVALSHA", "EVALSHA_RO"}
\* the 1-based position of the key among the arguments of cmd
KeyPos(cmd) == IF cmd \in EvalFamily THEN 3 ELSE 1

\* C19: the slot of a command is the slot of its key, the third argument of
\* EVAL, EVAL_RO, EVALSHA and EVALSHA_RO and the first argument of any other
C19_CmdSlotOfKey ==
  (/\ ret.call = "CmdSlot"
   /\ Len(ret.args) >= KeyPos(ret.cmd)
   /\ ret.args[KeyPos(ret.cmd)].t = "string") =>
    ret.slot = slot(ret.args[KeyPos(ret.cmd)].v)

\* C20 as stated: for every x without braces, the empty one included, and
\* every y, slot(x) = slot({x}y)
C20_TagSlotAnyX ==
  ret.call = "slot" => ret.sx = ret.sxy

\* C20: for every non-empty x without braces and every y, slot(x) = slot({x}y)
C20_TagSlot ==
  (ret.call = "slot" /\ ret.x # <<>>) => ret.sx = ret.sxy
\* a tagged key with a suffix whose slot is its tag's and not its own text's
C20_Witness ==
  /\ ret.call = "slot" /\ ret.x # <<>> /\ ret.y # <<>>
  /\ ret.sx = ret.sxy
  /\ ret.sxy # crc16(Tagged(ret.x, ret.y)) % TotalSlots

\* the 1-based place of the last occurrence of key among the keys of grp
PlaceIn(grp, key) ==
  CHOOSE i \in 1..Len(grp) :
    grp[i].v = key /\ \A j \in (i + 1)..Len(grp) : grp[j].v # key
\* the reply is an array of n elements
ArrayOf(reply, n) == reply.kind = "array" /\ Len(reply.vals) = n
\* an MGET call has returned without error
MgetReturned == ret.call = "Do" /\ ret.cmd = "MGET" /\ ret.err = NoErr

\* C14: whatever order the sub-MGETs were queued in, an MGET that returns
\* gives an array as long as its key list whose i-th element is the element
\* for the i-th key in the reply of the sub-MGET of that key's slot (nil when
\* that reply is not an array of the group's length), a value of that very key
C14_MgetReassembled ==
  MgetReturned =>
    /\ ret.reply.kind = "array"
    /\ Len(ret.reply.vals) = Len(ret.keys)
    /\ \A i \in 1..Len(ret.keys) :
         LET k == ret.keys[i]
             grp == SelectSeq([j \in 1..Len(ret.keys) |-> Str(ret.keys[j])],
                              LAMBDA a : slot(a.v) = slot(k))
             sub == ret.sub[slot(k)].reply
         IN /\ ret.reply.vals[i] =
                 IF ArrayOf(sub, Len(grp)) THEN sub.vals[PlaceIn(grp, k)] ELSE NoReply
            /\ ret.reply.vals[i] # NoReply => ret.reply.vals[i].k = k
\* keys {b}1, {a}1, {b}2 or the like: three keys of two slots, the middle one
\* alone in its slot and its sub-MGET queued first, the other sub-MGET
\* redirected, and every key answered with its value
C14_Witness ==
  /\ MgetReturned
  /\ Len(ret.keys) = 3
  /\ ret.order[1] = slot(ret.keys[2])
  /\ slot(ret.keys[1]) = slot(ret.keys[3]) /\ slot(ret.keys[1]) # slot(ret.keys[2])
  /\ \A i \in 1..3 : ret.reply.vals[i] # NoReply /\ ret.reply.vals[i].k = ret.keys[i]
  /\ \E a \in Addrs : ret.sub[slot(ret.keys[2])].tx = <<a>>
                      /\ ret.sub[slot(ret.keys[1])].tx = <<a, Elsewhere(a)>>

\* the sub-command was written to a node and the last answer read for it is
\* that node's OK
Stored(g) ==
  /\ g.tx # <<>> /\ g.rx # <<>>
  /\ g.rx[Len(g.rx)].err = NoErr
  /\ g.rx[Len(g.rx)].reply.kind = "ok"

\* C15: after an MSET that succeeds an MGET of its keys returns its values in
\* the order of the keys; for that an MSET that returns without error has had
\* every one of its pairs stored by a node
C15_MsetThenMget ==
  (ret.call = "Do" /\ ret.cmd = "MSET" /\ ret.err = NoErr) =>
    \A sl \in DOMAIN ret.sub : Stored(ret.sub[sl])

\* the owners of slot s have a primary other than a, or s has no owners
PrimaryDiffers(table, s, a) == Len(table[s]) = 0 \/ table[s][1] # a
\* exactly one idle reload task starts, the others stay as they are
OneReloadStarted ==
  \E t \in ReloadTasks :
    /\ rt[t].pc = "idle" /\ rt'[t].pc = "check"
    /\ \A u \in ReloadTasks \ {t} : rt'[u] = rt[u]

\* C30: onRedir for MOVED s A acts if and only if the primary of s is not A
\* (or s has no owners): then the owners of s become exactly [A], no other
\* slot changes, one background reload is started and true is returned;
\* otherwise nothing changes, no reload is started and false is returned
C30_OnRedirFrame ==
  [][/\ (cpc = "do_redir" /\ cpc' # cpc /\ d.ri.Kind = "MOVED") =>
          /\ obs'.decided <=> PrimaryDiffers(slotAddrMap, d.ri.Slot, d.ri.Addr)
          /\ (cpc' = "do_redirWrite") <=> obs'.decided
          /\ UNCHANGED <<slotAddrMap, slots, reloading, rt>>
          /\ obs'.sched = obs.sched
     /\ (cpc = "do_redirWrite" /\ cpc' # cpc) =>
          /\ slotAddrMap' = [slotAddrMap EXCEPT ![d.ri.Slot] = <<d.ri.Addr>>]
          /\ OneReloadStarted
          /\ obs'.sched = obs.sched + 1
          /\ obs.decided]_vars
\* onRedir has just replaced the owners of a slot by the address of the MOVED
\* and started a reload, and another slot still has its two owners
C30_Witness ==
  /\ cpc = "do_borrow2"
  /\ d.ri.Kind = "MOVED"
  /\ obs.decided /\ obs.sched = 1
  /\ slotAddrMap[d.ri.Slot] = <<d.ri.Addr>>
  /\ \E s \in Slots \ {d.ri.Slot} : Len(slotAddrMap[s]) = 2
  /\ \E t \in ReloadTasks : rt[t].pc = "check"

\* the first answer read for the command is a value or an error that is not
\* a redirection
FirstAnswerFinal(c) == c.rx # <<>> /\ ~Redirected(c.rx[1].err)

\* C25: a queued command whose first answer is a success or an error other
\* than MOVED / ASK is written to a node exactly once and read once, whatever
\* happens to the commands it shares its node with
C25_FinalSentOnce ==
  \A i \in 1..Len(ppl.cmds) :
    FirstAnswerFinal(ppl.cmds[i]) =>
      Len(ppl.cmds[i].tx) = 1 /\ Len(ppl.cmds[i].rx) = 1
\* a flush has returned; its first command was redirected and written again,
\* its second, first written to the same node, got an error that is no
\* redirection and was written once
C25_Witness ==
  /\ ret.call = "Flush" /\ ppl.flushed
  /\ Len(ppl.cmds) = 2
  /\ Len(ppl.cmds[1].tx) = 2 /\ Len(ppl.cmds[1].rx) = 2
  /\ ppl.cmds[2].tx = <<ppl.cmds[1].tx[1]>>
  /\ ppl.cmds[2].reply_err # NoErr /\ FirstAnswerFinal(ppl.cmds[2])

\* C26: a flush has at most one redirect round: no command is written to a
\* node, or answered, more than twice, and a command answered with MOVED or
\* ASK in the redirect round too is handed out by Receive with that error
C26_OneRedirectRound ==
  /\ \A i \in 1..Len(ppl.cmds) :
       Len(ppl.cmds[i].tx) <= 2 /\ Len(ppl.cmds[i].rx) <= 2
  /\ (ret.call = "Receive" /\ Len(ret.rx) = 2 /\ Redirected(ret.rx[2].err)) =>
       /\ Len(ret.tx) = 2
       /\ ret.reply = NoReply
       /\ ret.err = ret.rx[2].err
\* Receive hands out the MOVED that the node of the redirect round answered
C26_Witness ==
  /\ ret.call = "Receive"
  /\ Len(ret.tx) = 2 /\ Len(ret.rx) = 2
  /\ Redirected(ret.rx[1].err) /\ Redirected(ret.rx[2].err)
  /\ ParseRedirInfo(ret.rx[2].err).Kind = "MOVED"
  /\ ret.err = ret.rx[2].err
  /\ ret.err.from = ret.tx[2]

\* the step is the buildBatches of a flush, and it succeeds
BuildStep == cpc = "fl_build" /\ cpc' = "fl_wait1"
\* the places of the queued commands that the batch of address a holds
InBatch(p, a) == IF p.batches[a].exists THEN p.batches[a].cmds ELSE <<>>

\* C27: buildBatches puts every queued command in the batch of the primary
\* the table has for the slot of the command's own key, and in that batch
\* only, and each batch holds its commands in the order they were sent
C27_BatchByKeySlot ==
  [][BuildStep =>
       \A i \in 1..Len(ppl'.cmds) :
         LET own == slotAddrMap[slot(ppl'.cmds[i].args[1].v)][1] IN
           /\ ppl'.cmds[i].addr = own
           /\ \A a \in Addrs :
                (\E j \in 1..Len(InBatch(ppl', a)) : InBatch(ppl', a)[j] = i) <=> a = own
           /\ \A a \in Addrs : \A j, k \in 1..Len(InBatch(ppl', a)) :
                j < k => InBatch(ppl', a)[j] < InBatch(ppl', a)[k]]_vars

\* the replies and errors of the queued commands
Replies(p) == [i \in 1..Len(p.cmds) |-> <<p.cmds[i].reply, p.cmds[i].reply_err>>]

\* C28: a flush waits for its batch goroutines: buildRedirectBatches starts,
\* and the flush returns, only when every goroutine of the round is done;
\* while flushed is set none is running and no step writes the reply or the
\* error of a queued command
C28_FlushBarrier ==
  /\ [](ppl.flushed => \A a \in Addrs : bt[a].pc = "none")
  /\ [](cpc \in {"fl_redir", "fl_redirWrite"} => \A a \in Addrs : bt[a].pc = "none")
  /\ [][/\ (cpc \in {"fl_wait1", "fl_wait2"} /\ cpc' # cpc) =>
             \A a \in Addrs : bt[a].pc \in {"none", "done"}
        /\ (ppl.flushed /\ ppl'.flushed) =>
             SubSeq(Replies(ppl'), 1, Len(ppl.cmds)) = Replies(ppl)]_vars
\* the two goroutines of a redirect round, on two nodes, are both done and
\* the flush is about to return
C28_Witness ==
  /\ cpc = "fl_wait2"
  /\ \E a, b \in Addrs : a # b /\ bt[a].pc = "done" /\ bt[b].pc = "done"
  /\ \A i \in 1..Len(ppl.cmds) : Len(ppl.cmds[i].rx) = 2

\* the pipeLiner is as newPipeliner made it and no batch connection is open
Fresh ==
  /\ ppl = newPipeliner
  /\ ppl.cmds = <<>> /\ ~ppl.flushed /\ ppl.recvPos = -1
  /\ \A a \in Addrs : ~ppl.batches[a].exists
  /\ obs.held = NoneOpen
\* the step is the Receive that hands out the reply of the last command
LastReceive ==
  /\ cpc = "idle" /\ ppl.exists /\ ppl.flushed
  /\ NextRecvPos(ppl) = Len(ppl.cmds) - 1
  /\ ret'.call = "Receive" /\ obs'.nrcv = obs.nrcv + 1

\* C29: after the Receive that consumes the last reply, and after Close, the
\* pipeLiner is as newPipeliner made it: no command, flushed false, cursor -1,
\* no batch, and every connection a batch borrowed has been closed once
C29_ResetPipeliner ==
  /\ []((ret.call = "Close" /\ ppl.exists) => Fresh)
  /\ [][LastReceive => Fresh']_vars
\* Close after a flush of two commands that went through a redirect round on
\* the connections its batches borrowed, before any reply is received
C29_Witness ==
  /\ ret.call = "Close" /\ ppl = newPipeliner
  /\ obs.held = NoneOpen
  /\ obs.nrcv = 0 /\ Len(obs.grp) = 2
  /\ obs.sched > 0

\* C21: after Close the facade holds no connection: the cached one is gone and
\* every connection its Do calls borrowed has been closed
C21_CloseReleasesAll ==
  ret.call = "Close" => lastRc = NoConn /\ obs.open = NoneOpen

\* the step is a ClusterPool.Close
PoolCloseStep == pools'.closes = pools.closes + 1

\* C22: when ClusterPool.Close returns every pool that was made has been
\* closed, the map holds no pool, there are no ranges and no slot has an owner
C22_PoolCloseClears ==
  [][PoolCloseStep =>
       /\ pools'.made \subseteq pools'.closed
       /\ connPools' = {} /\ \A a \in Addrs : pools'.reg[a] = 0
       /\ slots' = <<>>
       /\ \A s \in Slots : slotAddrMap'[s] = <<>>]_vars
\* Close has closed the pools of two nodes and cleared the table
C22_Witness ==
  /\ ret.call = "Close" /\ pools.closes = 1
  /\ pools.closed = {<<AddrA, 1>>, <<AddrB, 1>>} /\ pools.made = pools.closed
  /\ connPools = {} /\ slots = <<>>
  /\ \A s \in Slots : slotAddrMap[s] = <<>>

\* C23: with a pool factory, CreateConnPool is called for an address only
\* while the map holds no pool for it, and a checkout that has left the
\* critical section holds the pool the map has for its address, unless Close
\* has closed that pool since
C23_OnePoolPerAddr ==
  /\ [](hasFactory =>
          \A p \in CoProcs :
            co[p].pc \in {"unlock", "get"} =>
              /\ co[p].np # 0
              /\ \/ co[p].np = pools.reg[co[p].addr]
                 \/ <<co[p].addr, co[p].np>> \in pools.closed)
  /\ [][hasFactory =>
          \A a \in Addrs :
            pools'.calls[a] > pools.calls[a] => a \notin connPools /\ pools.reg[a] = 0]_vars
\* two checkouts of one address are about to take a connection from the one
\* pool the factory made for it
C23_Witness ==
  /\ hasFactory
  /\ \A p \in CoProcs : co[p].pc = "get" /\ co[p].addr = AddrA /\ co[p].np = 1
  /\ pools.calls[AddrA] = 1 /\ pools.reg[AddrA] = 1 /\ pools.closes = 0

\* the step is the start of an SSubscribe
SubCall == ss'.n = ss.n + 1
\* two of the channels are strings that hash to different slots
CrossSlot(chs) ==
  \E i, j \in 1..Len(chs) :
    /\ chs[i].t = "string" /\ chs[j].t = "string"
    /\ Slot(chs[i].v) # Slot(chs[j].v)
\* the channels are strings, and two that are not empty hash to different slots
NamedCrossSlot(chs) ==
  /\ \A i \in 1..Len(chs) : chs[i].t = "string"
  /\ \E i, j \in 1..Len(chs) :
       /\ Len(chs[i].v) > 0 /\ Len(chs[j].v) > 0
       /\ Slot(chs[i].v) # Slot(chs[j].v)
\* the call has returned the same-slot error, has written nothing and has left
\* the held connection as it was
RefusedUntouched ==
  /\ ret' = SubRet(ss'.chs, LocalErr("channels must be in the same slot"))
  /\ ss'.pc = "idle"
  /\ ss'.conn = ss.conn /\ ss'.closes = ss.closes /\ ss'.sent = ss.sent
  /\ UNCHANGED <<connPools, pools>>

\* C24 as stated: SSubscribe with channels that hash to more than one slot
\* fails with "channels must be in the same slot", sends nothing and leaves
\* the held connection neither closed nor replaced
C24_CrossSlotAny == [][(SubCall /\ CrossSlot(ss'.chs)) => RefusedUntouched]_vars

\* C24: SSubscribe with string channels of which two non-empty ones hash to
\* different slots fails with "channels must be in the same slot", sends
\* nothing and leaves the held connection neither closed nor replaced
C24_CrossSlotRefused == [][(SubCall /\ NamedCrossSlot(ss'.chs)) => RefusedUntouched]_vars
\* a facade that holds a subscribed connection has refused a second SSubscribe
C24_Witness ==
  /\ ret = SubRet(ss.chs, LocalErr("channels must be in the same slot"))
  /\ NamedCrossSlot(ss.chs)
  /\ ss.n = 2 /\ ss.pc = "idle"
  /\ ss.conn # NoConn /\ ss.closes = 0 /\ Len(ss.sent) = 1

\* the step is one of reload call t, from pc a to pc b
Moves(t, a, b) == rt'[t] # rt[t] /\ rt[t].pc = a /\ rt'[t].pc = b

\* C31: a reload takes its candidates in order; a candidate that fails is
\* dropped without a write to the table or the ranges; the first reply that
\* parses is installed whole; when the candidates run out the call returns
\* "all nodes failed" and has written nothing
C31_ReloadCandidates ==
  [][\A t \in ReloadTasks :
       /\ Moves(t, "getNodes", "borrow") =>
            rt'[t].nodes = getNodes(TRUE) /\ UNCHANGED <<slotAddrMap, slots>>
       /\ Moves(t, "borrow", "borrow") =>
            /\ rt[t].nodes # <<>> /\ rt'[t].nodes = Tail(rt[t].nodes)
            /\ UNCHANGED <<slotAddrMap, slots>>
       /\ Moves(t, "borrow", "update") =>
            /\ rt[t].nodes # <<>>
                   /\ \A i \in 1..Len(rt'[t].rep) :
                        \A j \in 1..Len(rt'[t].rep[i].nodes) :
                          rt'[t].rep[i].nodes[j].wellFormed
            /\ UNCHANGED <<slotAddrMap, slots>>
       /\ Moves(t, "borrow", "clear") =>
            /\ rt[t].nodes = <<>> /\ rt'[t].err = "all nodes failed"
            /\ UNCHANGED <<slotAddrMap, slots>>
       /\ Moves(t, "update", "clear") =>
            /\ rt'[t].err = "nil"
            /\ slots' = ParseSlots(rt[t].rep)
            /\ \A s \in Slots :
                 \A i \in 1..Len(rt[t].rep) :
                   (rt[t].rep[i].Start <= s /\ s <= rt[t].rep[i].End
                    /\ \A j \in (i + 1)..Len(rt[t].rep) :
                         ~(rt[t].rep[j].Start <= s /\ s <= rt[t].rep[j].End))
                   => slotAddrMap'[s] = AddrsOf(rt[t].rep[i].nodes)]_vars
\* a reload of a loaded pool has run out of candidates: the table and the
\* ranges of the earlier reload are still installed
C31_Witness ==
  /\ \E t \in ReloadTasks : rt[t].pc = "clear" /\ rt[t].err = "all nodes failed"
  /\ nReloadCalls = 2
  /\ Len(slots) > 0
  /\ \A s \in Slots : Len(slotAddrMap[s]) > 0

\* the table a parsed reply describes: the owners of the last range that holds
\* the slot, none for a slot in no range
RECURSIVE OwnersIn(_, _)
OwnersIn(sis, s) ==
  IF sis = <<>> THEN <<>>
  ELSE IF sis[Len(sis)].Start <= s /\ s <= sis[Len(sis)].End
       THEN sis[Len(sis)].Addrs
       ELSE OwnersIn(SubSeq(sis, 1, Len(sis) - 1), s)

\* C32: the step that installs a parsed CLUSTER SLOTS reply leaves the slot
\* table exactly the table of the reply: the owners of a replied range for
\* its slots, and no owner for a slot the reply does not cover
C32_InstallExact ==
  [][\A t \in ReloadTasks :
       Moves(t, "update", "clear") =>
         \A s \in Slots : slotAddrMap'[s] = OwnersIn(ParseSlots(rt[t].rep), s)]_vars

\* C32, for the slots the reply covers: they get the owners of their range
C32_InstallCovered ==
  [][\A t \in ReloadTasks :
       Moves(t, "update", "clear") =>
         \A s \in Slots :
           OwnersIn(ParseSlots(rt[t].rep), s) # <<>> =>
             slotAddrMap'[s] = OwnersIn(ParseSlots(rt[t].rep), s)]_vars

\* a reload is done, and a slot its reply did not cover still has an owner
C32_Witness ==
  /\ \E t \in ReloadTasks : rt[t].pc = "clear" /\ rt[t].err = "nil"
  /\ slots = ParseSlots(TopoPart)
  /\ \E s \in Slots : OwnersIn(slots, s) = <<>> /\ slotAddrMap[s] # <<>>

\* C33: the slot table is written only by a task that holds the table's
\* mutex: a step that changes slotAddrMap is never taken while another task
\* holds the mutex
C33_TableUnderMutex ==
  [][slotAddrMap' # slotAddrMap => ~muLocked]_vars

\* C33, for Do's onRedir: its test of the table and its write are one
\* critical section, so the write is made on a table the test still holds for
C33_RedirTestAndWrite ==
  [][(cpc = "do_redirWrite" /\ cpc' = "do_borrow2") =>
       onRedirDecide(slotAddrMap, d.ri)]_vars

\* the connections a count holds over the nodes of set as
RECURSIVE CountOver(_, _)
CountOver(n, as) ==
  IF as = {} THEN 0
  ELSE LET a == CHOOSE x \in as : TRUE IN n[a] + CountOver(n, as \ {a})

\* C34: between its Do calls a facade holds at most one open borrowed
\* connection, and the connection it caches is one borrowed for the cached
\* address
C34_OneOpenConn ==
  cpc = "idle" =>
    /\ CountOver(obs.open, Addrs) <= 1
    /\ lastRc # NoConn => lastRc = lastAddr /\ obs.open[lastAddr] >= 1

\* C34, for a Do that is answered without a redirection: the routed address
\* is the cached one and its connection is used with nothing borrowed, or the
\* cached connection is closed and the one borrowed for the routed address is
\* cached in its place
C34_GetConnCaches ==
  [][(cpc = "do_borrow" /\ cpc' = "do_call") =>
       /\ (d.addr = lastAddr /\ lastRc # NoConn) =>
            UNCHANGED <<connPools, lastAddr, lastRc, obs>> /\ d'.conn = lastRc
       /\ ~(d.addr = lastAddr /\ lastRc # NoConn) =>
            /\ lastAddr' = d.addr /\ lastRc' = d.addr /\ d'.conn = d.addr
            /\ obs'.open = Borrowed(Closed(obs.open, lastRc), d.addr)]_vars

\* C35: CmdSlot of a command with no arguments is -1, the slot of no key
C35_NoArgsSlot ==
  (ret.call = "CmdSlot" /\ ret.args = <<>>) => ret.slot = -1

\* the call is an MSET whose last key has no value
OddMset == d.cmd = "MSET" /\ Len(d.args) % 2 = 1

\* C36: an MSET with an odd number of arguments returns an error in the step
\* that calls it, with no pipeLiner made, no sub-command queued, no connection
\* borrowed and nothing written to a node, the pairs before the unpaired key
\* included
C36_OddMsetRefused ==
  /\ [](OddMset => cpc = "idle" /\ ret.call = "Do" /\ ret.err # NoErr)
  /\ [][(nDo' = nDo + 1 /\ d'.cmd = "MSET" /\ Len(d'.args) % 2 = 1) =>
         /\ UNCHANGED <<ppl, bt, fl, connPools, pools, lastAddr, lastRc, slotAddrMap>>
         /\ obs'.held = obs.held /\ obs'.open = obs.open]_vars

\* an MSET of a complete pair and an unpaired key has returned its error
C36_Witness ==
  /\ OddMset /\ Len(d.args) >= 3
  /\ ret.call = "Do" /\ ret.err = LocalErr("args length exeption for mset")

\* the number of keys of the returned MGET that are in slot sl
KeyCount(sl) == Cardinality({j \in 1..Len(ret.keys) : slot(ret.keys[j]) = sl})

\* C37: in the array an MGET returns, the positions of the keys of a slot
\* whose reply is not an array of that slot's key count are null, and only
\* those: every other position holds the value of its key
C37_BadGroupNull ==
  MgetReturned =>
    \A i \in 1..Len(ret.keys) :
      IF ArrayOf(ret.sub[slot(ret.keys[i])].reply, KeyCount(slot(ret.keys[i])))
      THEN ret.reply.vals[i] # NoReply /\ ret.reply.vals[i].k = ret.keys[i]
      ELSE ret.reply.vals[i] = NoReply

\* an MGET of three keys of two slots has returned: the slot of two keys was
\* answered by an array of another length, the slot of the third by its value
C37_Witness ==
  /\ MgetReturned
  /\ Len(ret.keys) = 3
  /\ \E i, j, k \in 1..3 :
       /\ i # j /\ slot(ret.keys[i]) = slot(ret.keys[j])
       /\ slot(ret.keys[k]) # slot(ret.keys[i])
       /\ ret.sub[slot(ret.keys[i])].reply.kind = "array"
       /\ ~ArrayOf(ret.sub[slot(ret.keys[i])].reply, 2)
       /\ ret.reply.vals[i] = NoReply /\ ret.reply.vals[j] = NoReply
       /\ ret.reply.vals[k] # NoReply

\* C38: a Receive that hands out a queued command's answer without error
\* hands out what a node answered: that command was written to a node by a
\* Flush
C38_ReceivedWasSent ==
  (ret.call = "Receive" /\ ret.id # 0 /\ ret.err = NoErr) => ret.tx # <<>>

\* C38, for a Send made after the Flush: a command the last Flush did not
\* take is not answered by Receive with a nil reply and a nil error
C38_UnflushedNotAnswered ==
  (/\ ret.call = "Receive" /\ ret.id # 0
   /\ \A j \in 1..Len(obs.grp) : obs.grp[j] # ret.id)
  => ret.err # NoErr

\* C39: when a Do has returned, the facade's mutex is free, so that the next
\* Do, Send, Receive or Close can take it
C39_DoReleasesMutex ==
  (cpc = "idle" /\ ret.call = "Do") => ~mu

\* C39, for the calls that follow: a Do, Send, Receive or Close made between
\* two calls of the facade finds the mutex free
C39_FacadeNeverBlocks ==
  cpc = "idle" => ~mu

\* the one result of a non-read-only lookup of slot s on the table is address a
LooksUp(table, s, a) ==
  GetAddrsBySlots(table, <<s>>, FALSE) = {[addrs |-> <<a>>, err |-> "nil"]}
\* the step is the return of Do's onRedir for a MOVED of a slot of the table
MovedHandled ==
  /\ cpc' = "do_borrow2"
  /\ \/ cpc = "do_redirWrite"
     \/ cpc = "do_redir" /\ d.ri.Kind = "MOVED" /\ d.ri.Slot \in Slots
\* the step is a reload's install of a new table
Installs == \E t \in ReloadTasks : Moves(t, "update", "clear")

\* C40: when a MOVED s B has been handled the non-read-only lookup of s gives
\* B, and the table stays so until a reload installs a new one or another
\* MOVED is handled; a Do routes to what the lookup of its key's slot gives
\* and sends its first request there, and one that is answered has made that
\* one wire call only
C40_MovedRoutesNext ==
  [][/\ MovedHandled => LooksUp(slotAddrMap', d.ri.Slot, d.ri.Addr)
     /\ slotAddrMap' # slotAddrMap => Installs \/ MovedHandled
     /\ (cpc = "do_route" /\ cpc' = "do_borrow") =>
          LooksUp(slotAddrMap, CmdSlot(d.cmd, d.args), d'.addr)
     /\ (cpc = "do_borrow" /\ cpc' = "do_call") => d'.conn = d.addr
     /\ (cpc = "do_call" /\ cpc' # "do_call") =>
          /\ obs'.wire = <<d.conn>>
          /\ cpc' = "idle" => ret'.call = "Do" /\ Len(obs'.wire) = 1]_vars

\* the first Do was redirected by a MOVED to a node that no range of the
\* loaded reply gives the slot to, no reload has installed a table since, and
\* the next Do for the slot was answered by that node on its only wire call
C40_Witness ==
  /\ nDo = MaxDo + 1 /\ cpc = "idle"
  /\ ret.call = "Do" /\ ret.err = NoErr /\ ret.reply.kind = "ok"
  /\ Len(obs.wire) = 1
  /\ \E s \in Slots :
       /\ slotAddrMap[s] = <<obs.wire[1]>>
       /\ OwnersIn(slots, s) # slotAddrMap[s]
       /\ ret.reply.from = obs.wire[1]
  /\ lastAddr = obs.wire[1]

========================================================================
